---- MODULE Spec2Model ----
(***************************************************************************)
(* Model of the refinery loss prediction services of this repository:      *)
(*   src/deployment/app.py                      ("deployment" variant)     *)
(*   src/render_deployment/app.py               ("render" variant)         *)
(*   src/deployment/vercel_deployment/api/index.py  ("vercel" variant)     *)
(* Numbers: a request field, a regressor coefficient and a value that      *)
(* round(x, 2) returned are written as an integer count of hundredths      *)
(* (8550 stands for 85.50 and is the double nearest to 85.5); everything   *)
(* the code computes from them is an IEEE 754 double, computed with the    *)
(* operations and in the order of the source.                              *)
(***************************************************************************)
EXTENDS Integers, Sequences, FiniteSets, TLC

VARIABLES variant, disk, models, is_loaded, started, loads, req, resp, fixer,
          optimizer, loader, answered

vars == <<variant, disk, models, is_loaded, started, loads, req, resp, fixer, optimizer,
          loader, answered>>

\* answered is what a caller of the service kept of the responses it has
\* received; the service neither reads nor writes it

(***************************************************************************)
(* Bounds of the model.                                                    *)
(***************************************************************************)
\* longest batch enumerated item by item (longer ones are homogeneous)
MaxBatchLen == 2
\* load_models attempts counted before the model stops counting
MaxLoads == 2

(***************************************************************************)
(* Integer helpers.                                                        *)
(***************************************************************************)
Abs(x) == IF x < 0 THEN -x ELSE x

Min(a, b) == IF a < b THEN a ELSE b

Max(a, b) == IF a < b THEN b ELSE a

\* the element of a one-element set: Only({e : x \in {v}}) is e with x
\* standing for the value v, computed once
Only(S) == CHOOSE x \in S : TRUE

(***************************************************************************)
(* Natural numbers beyond 2^31: a sequence of 14-bit limbs, least          *)
(* significant first, without leading zero limbs (<< >> is zero).          *)
(***************************************************************************)
LimbBits == 14

Limb == 16384

Digit(M, i) == IF i >= 1 /\ i <= Len(M) THEN M[i] ELSE 0

\* M without its leading zero limbs
Trim(M) == SubSeq(M, 1, Cardinality({k \in 1..Len(M) : \E j \in k..Len(M) : M[j] # 0}))

\* k in 0 .. 2^31 - 1
BigFromInt(k) == Trim(<< k % Limb, (k \div Limb) % Limb, k \div (Limb * Limb) >>)

\* M below 2^31
BigToInt(M) == Digit(M, 1) + Digit(M, 2) * Limb + Digit(M, 3) * Limb * Limb

BitLenLimb(x) == CHOOSE k \in 1..LimbBits : 2^(k - 1) <= x /\ x < 2^k

BitLen(M) == IF M = << >> THEN 0 ELSE LimbBits * (Len(M) - 1) + BitLenLimb(M[Len(M)])

RECURSIVE Propagate(_, _, _)
\* the limbs of sum c[k] * Limb^(k-1) for columns c of any sign, from column
\* k on with the carry into it, two columns at a time; the limb past the last
\* column is zero
Propagate(c, k, carry) ==
    IF k > Len(c) THEN << >>
    ELSE << (c[k] + carry) % Limb, (Digit(c, k + 1) + ((c[k] + carry) \div Limb)) % Limb >>
           \o Propagate(c, k + 2, (Digit(c, k + 1) + ((c[k] + carry) \div Limb)) \div Limb)

BigAdd(a, b) ==
    Trim(Propagate([k \in 1..(Max(Len(a), Len(b)) + 1) |-> Digit(a, k) + Digit(b, k)], 1, 0))

\* a - b for a >= b
BigSub(a, b) == Trim(Propagate([k \in 1..Len(a) |-> a[k] - Digit(b, k)], 1, 0))

\* a * x for 0 <= x < 2^16
BigMulSmall(a, x) == Trim(Propagate([k \in 1..(Len(a) + 2) |-> Digit(a, k) * x], 1, 0))

\* a * b for a, b of at most four limbs
BigMul(a, b) ==
    Trim(Propagate([k \in 1..(Len(a) + Len(b)) |->
                       Digit(a, 1) * Digit(b, k) + Digit(a, 2) * Digit(b, k - 1)
                         + Digit(a, 3) * Digit(b, k - 2) + Digit(a, 4) * Digit(b, k - 3)],
                   1, 0))

\* the comparison of a and b at limb k, the highest one where they differ
\* (0 when they do not)
BigCmpAt(a, b, k) ==
    IF k = 0 THEN 0 ELSE IF Digit(a, k) < Digit(b, k) THEN -1 ELSE 1

\* -1, 0, 1 as a < b, a = b, a > b: the longer one is the larger, and numbers
\* of one length compare at their highest differing limb
BigCmp(a, b) ==
    IF Len(a) < Len(b) THEN -1
    ELSE IF Len(a) > Len(b) THEN 1
    ELSE BigCmpAt(a, b, Cardinality({k \in 1..Len(a) : \E j \in k..Len(a) : a[j] # b[j]}))

\* a * 2^n
BigShl(a, n) ==
    Trim([k \in 1..(Len(a) + (n \div LimbBits) + 1) |->
            (Digit(a, k - (n \div LimbBits)) % 2^(LimbBits - (n % LimbBits))) * 2^(n % LimbBits)
              + (Digit(a, k - (n \div LimbBits) - 1) \div 2^(LimbBits - (n % LimbBits)))])

\* a \div 2^n
BigShr(a, n) ==
    IF Len(a) <= n \div LimbBits THEN << >>
    ELSE Trim([k \in 1..(Len(a) - (n \div LimbBits)) |->
                 (Digit(a, k + (n \div LimbBits)) \div 2^(n % LimbBits))
                   + (Digit(a, k + (n \div LimbBits) + 1) % 2^(n % LimbBits))
                       * 2^(LimbBits - (n % LimbBits))])

\* bit n of a, bit 0 the least significant
BigBit(a, n) == (Digit(a, (n \div LimbBits) + 1) \div 2^(n % LimbBits)) % 2

\* a % 2^n = 0
BigLowZero(a, n) ==
    /\ \A k \in 1..(n \div LimbBits) : Digit(a, k) = 0
    /\ Digit(a, (n \div LimbBits) + 1) % 2^(n % LimbBits) = 0

\* the largest q in {qhat - 2, qhat - 1, qhat} with q * d <= r
QuotientLimb(r, d, qhat) ==
    IF BigCmp(BigMulSmall(d, qhat), r) <= 0 THEN qhat
    ELSE IF BigCmp(BigMulSmall(d, qhat - 1), r) <= 0 THEN qhat - 1
    ELSE qhat - 2

\* the division st after limb was found to be the next limb of the quotient
\* of r = st.r * Limb by st.d
BigDivStep(st, r, limb) ==
    [q |-> << limb >> \o st.q, r |-> BigSub(r, BigMulSmall(st.d, limb)), d |-> st.d,
     n |-> st.n - 1]

\* one step of the long division: the estimate of the next limb from the two
\* top limbs of the remainder, corrected
BigDivLimb(st, r) ==
    BigDivStep(st, r,
               QuotientLimb(r, st.d,
                            Min(Limb - 1,
                                ((Digit(st.r, 4) * Limb) + Digit(st.r, 3)) \div st.d[4])))

RECURSIVE BigDivLimbs(_)
\* long division of st.r * Limb^st.n by st.d, one limb of the quotient at a
\* time, for st.r < st.d and st.d of four limbs with its top limb at least
\* Limb / 2; st.q holds the limbs found so far
BigDivLimbs(st) ==
    IF st.n = 0 THEN st
    ELSE BigDivLimbs(BigDivLimb(st, IF st.r = << >> THEN st.r ELSE << 0 >> \o st.r))

(***************************************************************************)
(* IEEE 754 binary64 numbers, the float of Python and the float64 of       *)
(* numpy: s * m * 2^e with s the sign (1 or -1) and m either zero or a     *)
(* natural number of exactly 53 bits.  Every operation returns the double  *)
(* nearest to the exact result, ties to the even mantissa.  Subnormal      *)
(* numbers, infinities and the sign of zero are outside the values the     *)
(* services compute.  np tells the type of the object: numpy.float64 (what *)
(* indexing the array returned by an sklearn estimator gives) or float.    *)
(* The two compute alike; an operation on a numpy.float64 and a float      *)
(* returns a numpy.float64, and round() is a method of the type.           *)
(***************************************************************************)
MantissaBits == 53

Double(s, M, e, np) == [s |-> s, m |-> M, e |-> e, np |-> np]

FZero == Double(1, << >>, 0, FALSE)

\* the same number as an object of the other type
AsType(a, np) == [a EXCEPT !.np = np]

\* float(x)
Float(a) == AsType(a, FALSE)

\* a mantissa that rounding carried up to 2^53 takes the next exponent
FPack(s, M, e, np) ==
    IF BitLen(M) > MantissaBits THEN Double(s, BigShr(M, 1), e + 1, np)
    ELSE Double(s, M, e, np)

\* M * 2^e with the sh > 0 low bits of M rounded away; sticky tells that the
\* exact value has further nonzero bits below M
FRoundBits(s, M, e, sticky, sh, np) ==
    IF sh <= 0 THEN Double(s, BigShl(M, -sh), e + sh, np)
    ELSE IF BigBit(M, sh - 1) = 1
            /\ (sticky \/ ~BigLowZero(M, sh - 1) \/ BigBit(M, sh) = 1)
         THEN FPack(s, BigAdd(BigShr(M, sh), << 1 >>), e + sh, np)
    ELSE Double(s, BigShr(M, sh), e + sh, np)

\* the double nearest to s * M * 2^e, an object of the type np
FRound(s, M, e, sticky, np) ==
    IF M = << >> THEN AsType(FZero, np)
    ELSE FRoundBits(s, M, e, sticky, BitLen(M) - MantissaBits, np)

\* float(k) for an int k: k has fewer than 53 bits, so the double is k itself
\* with its mantissa shifted up to 53 bits
FInt(k) ==
    IF k = 0 THEN FZero
    ELSE Only({Double(IF k < 0 THEN -1 ELSE 1, BigShl(M, MantissaBits - BitLen(M)),
                      BitLen(M) - MantissaBits, FALSE) :
               M \in {BigFromInt(Abs(k))}})

FNeg(a) == IF a.m = << >> THEN a ELSE [a EXCEPT !.s = -a.s]

FAbs(a) == [a EXCEPT !.s = 1]

\* -1, 0, 1 as a < b, a = b, a > b
FCmp(a, b) ==
    IF a.m = << >> THEN (IF b.m = << >> THEN 0 ELSE -b.s)
    ELSE IF b.m = << >> THEN a.s
    ELSE IF a.s # b.s THEN a.s
    ELSE IF a.e # b.e THEN (IF a.e < b.e THEN -a.s ELSE a.s)
    ELSE a.s * BigCmp(a.m, b.m)

FLt(a, b) == FCmp(a, b) < 0

FLe(a, b) == FCmp(a, b) <= 0

\* min(a, b) and max(a, b) of Python: the first argument unless the second
\* is strictly smaller / larger
FMin(a, b) == IF FLt(b, a) THEN b ELSE a

FMax(a, b) == IF FLt(a, b) THEN b ELSE a

\* the sum of sa * A * 2^e and sb * B * 2^e
FAddAligned(sa, A, sb, B, e, np) ==
    Only({FRound(sum.s, sum.m, e, FALSE, np) :
          sum \in {IF sa = sb THEN [s |-> sa, m |-> BigAdd(A, B)]
                   ELSE IF BigCmp(A, B) >= 0 THEN [s |-> sa, m |-> BigSub(A, B)]
                   ELSE [s |-> sb, m |-> BigSub(B, A)]}})

\* a + b; an operand more than 60 binary places below the other cannot
\* change the rounded sum
FAdd(a, b) ==
    IF a.m = << >> THEN AsType(b, a.np \/ b.np)
    ELSE IF b.m = << >> THEN AsType(a, a.np \/ b.np)
    ELSE IF a.e - b.e > 60 THEN AsType(a, a.np \/ b.np)
    ELSE IF b.e - a.e > 60 THEN AsType(b, a.np \/ b.np)
    ELSE FAddAligned(a.s, BigShl(a.m, a.e - Min(a.e, b.e)),
                     b.s, BigShl(b.m, b.e - Min(a.e, b.e)), Min(a.e, b.e),
                     a.np \/ b.np)

FSub(a, b) == FAdd(a, FNeg(b))

FMul(a, b) ==
    IF a.m = << >> \/ b.m = << >> THEN AsType(FZero, a.np \/ b.np)
    ELSE FRound(a.s * b.s, BigMul(a.m, b.m), a.e + b.e, FALSE, a.np \/ b.np)

\* the quotient of A * Limb^4 by D, and its remainder
FDivMantissas(A, D) ==
    BigDivLimbs(IF BigCmp(A, D) >= 0
                THEN [q |-> << 1 >>, r |-> BigSub(A, D), d |-> D, n |-> 4]
                ELSE [q |-> << >>, r |-> A, d |-> D, n |-> 4])

FFromQuotient(s, qr, e, np) == FRound(s, qr.q, e, qr.r # << >>, np)

\* a / b for b # 0
FDiv(a, b) ==
    IF a.m = << >> THEN AsType(FZero, a.np \/ b.np)
    ELSE FFromQuotient(a.s * b.s, FDivMantissas(BigShl(a.m, 3), BigShl(b.m, 3)),
                       a.e - b.e - 4 * LimbBits, a.np \/ b.np)

RECURSIVE BigDivSmall(_, _, _, _)
\* short division of the limbs 1..k of a, below the remainder rem of the
\* limbs above them, by x in 1 .. Limb - 1: the limbs of the quotient and the
\* remainder
BigDivSmall(a, x, k, rem) ==
    IF k = 0 THEN [q |-> << >>, r |-> rem]
    ELSE Only({[q |-> low.q \o << (rem * Limb + a[k]) \div x >>, r |-> low.r] :
               low \in {BigDivSmall(a, x, k - 1, (rem * Limb + a[k]) % x)}})

\* the double nearest to x hundredths: what float("0.07") and a JSON number
\* with two decimals give.  |x| * 2^70 / 100 has more than 53 bits, and the
\* remainder of the division tells whether bits were lost below it.
H(x) ==
    IF x = 0 THEN FZero
    ELSE Only({FRound(IF x < 0 THEN -1 ELSE 1, Trim(qr.q), -70, qr.r # 0, FALSE) :
               qr \in {Only({BigDivSmall(M, 100, Len(M), 0) :
                             M \in {BigShl(BigFromInt(Abs(x)), 70)}})}})

\* M * 2^e rounded to an integer, ties to even
RoundHalfEven(M, e) ==
    IF e >= 0 THEN BigToInt(BigShl(M, e))
    ELSE BigToInt(BigShr(M, -e))
           + (IF BigBit(M, -e - 1) = 1 /\ (~BigLowZero(M, -e - 1) \/ BigBit(M, -e) = 1)
              THEN 1 ELSE 0)

\* the double a rounded to an integer, ties to even
FRint(a) == a.s * RoundHalfEven(a.m, a.e)

\* round(x, 2) as a count of hundredths.  float.__round__ rounds the exact
\* value of the double to two decimals, ties to even; numpy.float64.__round__
\* computes rint(x * 100) / 100, the product being a double already
Round2(a) ==
    Only({FRint(x) :
          x \in {IF a.np THEN FMul(a, FInt(100))
                 ELSE [s |-> a.s, m |-> BigMulSmall(a.m, 100), e |-> a.e]}})

(***************************************************************************)
(* Requests.                                                               *)
(***************************************************************************)
BASE_FEATURE_NAMES ==
    << "percentage_yield", "gravity", "vapour_pressure", "ten_percent_distillation",
       "fraction_end_point", "actual_feed_mt", "feed_ffa", "moisture",
       "bleaching_earth_quantity", "phosphoric_acid_quantity", "citric_acid_quantity",
       "phenamol_quantity", "fractionation_feed", "phenomol_consumption" >>

FeatureNames == {BASE_FEATURE_NAMES[i] : i \in 1..Len(BASE_FEATURE_NAMES)}

\* Field(..., ge=0, le=...): the upper limit of a field in hundredths, -1 for none
FieldMax(f) ==
    CASE f = "percentage_yield" -> 10000
      [] f = "gravity"          -> 200
      [] f = "feed_ffa"         -> 5000
      [] f = "moisture"         -> 1000
      [] OTHER                  -> -1

\* a faulty validation that forgets the upper limits (le=...) of the fields
ValidInput_NoUpperLimit(body) ==
    \A f \in FeatureNames :
        /\ f \in DOMAIN body
        /\ body[f] >= 0

\* pydantic validation of one record: every field present and within range
ValidInput(body) ==
    \A f \in FeatureNames :
        /\ f \in DOMAIN body
        /\ body[f] >= 0
        /\ (FieldMax(f) >= 0 => body[f] <= FieldMax(f))

\* RefineryOperationInput.convert_to_percentage, default True
ConvertToPercentage(body) ==
    IF "convert_to_percentage" \in DOMAIN body THEN body["convert_to_percentage"] ELSE TRUE

(***************************************************************************)
(* Artifacts on disk.  A file is "ok" (joblib.load returns a fitted        *)
(* object), "missing", "corrupt" (deserialisation raises) or "empty" (a    *)
(* file of 0 bytes: deserialisation raises as well).  A fitted             *)
(* object carries the widths sklearn checks in transform/predict; the      *)
(* regressor is an opaque deterministic map, modelled as the linear        *)
(* regressor raw = slope * actual_feed_mt + intercept, computed in doubles *)
(* from the doubles nearest to slope and intercept hundredths.             *)
(***************************************************************************)
\* dict order of model_files / model_paths
ArtifactNames == << "best_model_real", "scaler_real", "poly_real", "selector_real" >>

ArtifactSet == {ArtifactNames[i] : i \in 1..Len(ArtifactNames)}

RECURSIVE Choose(_, _)
\* binomial coefficient C(n, k)
Choose(n, k) == IF k = 0 THEN 1 ELSE (Choose(n - 1, k - 1) * n) \div k

\* width of what poly.transform returns: PolynomialFeatures(degree) on n inputs,
\* bias column included
PolyTransformWidth(n, degree) == Choose(n + degree, degree)

Widths == {Len(BASE_FEATURE_NAMES), Len(BASE_FEATURE_NAMES) + 1}

\* intercepts of the fitted regressor in hundredths; 0.07, 0.11 and 0.13 on
\* a feed of 40.0 give percentages halfway between two hundredths
Intercepts == {-300, 5, 7, 11, 13, 201, 700}

Slopes == {0, 3}

Artifact(st, nin, nout, i, s) ==
    [status |-> st, n_in |-> nin, n_out |-> nout, intercept |-> i, slope |-> s,
     output |-> "numpy.float64"]

Absent(st) == Artifact(st, 0, 0, 0, 0)

PolyOk == Artifact("ok", Len(BASE_FEATURE_NAMES), PolyTransformWidth(Len(BASE_FEATURE_NAMES), 2), 0, 0)

SelectorOk(k) == Artifact("ok", PolyTransformWidth(Len(BASE_FEATURE_NAMES), 2), k, 0, 0)

ScalerOk(n) == Artifact("ok", n, n, 0, 0)

ModelOk(n, i, s) == Artifact("ok", n, 1, i, s)

\* a directory whose regressor is an object that returns Python floats
WithFloatOutput(d) == [d EXCEPT !.files["best_model_real"].output = "float"]

\* four loadable files
CompleteDisk(nm, ns, k, i, s) ==
    [dir |-> TRUE,
     files |-> [best_model_real |-> ModelOk(nm, i, s), scaler_real |-> ScalerOk(ns),
                poly_real |-> PolyOk, selector_real |-> SelectorOk(k)]]

\* the fitted regressors: every intercept without a slope, and a regressor
\* that grows with the feed
Regressors == {<<i, 0>> : i \in Intercepts} \cup {<<201, s>> : s \in Slopes}

\* intercepts of the regressors that return Python floats
FloatIntercepts == {13, 201}

\* every file present and loadable: every combination of fitted widths, and
\* every regressor behind the widths of the training scripts
CompleteDisks ==
    { CompleteDisk(nm, ns, k, 201, 0) : <<nm, ns, k>> \in Widths \X Widths \X Widths } \cup
    { CompleteDisk(Len(BASE_FEATURE_NAMES), Len(BASE_FEATURE_NAMES),
                   Len(BASE_FEATURE_NAMES), r[1], r[2]) : r \in Regressors } \cup
    { WithFloatOutput(CompleteDisk(Len(BASE_FEATURE_NAMES), Len(BASE_FEATURE_NAMES),
                                   Len(BASE_FEATURE_NAMES), i, 0)) : i \in FloatIntercepts }

DefaultOk(name) ==
    CASE name = "best_model_real" -> ModelOk(Len(BASE_FEATURE_NAMES), 201, 0)
      [] name = "scaler_real"     -> ScalerOk(Len(BASE_FEATURE_NAMES))
      [] name = "poly_real"       -> PolyOk
      [] name = "selector_real"   -> SelectorOk(Len(BASE_FEATURE_NAMES))

\* some files missing, or one file corrupt
BrokenDisks ==
    { [dir |-> TRUE,
       files |-> [a \in ArtifactSet |-> IF st[a] = "ok" THEN DefaultOk(a) ELSE Absent(st[a])]] :
        st \in {t \in [ArtifactSet -> {"ok", "missing", "corrupt"}] :
                    \/ \E a \in ArtifactSet : t[a] = "missing" /\ \A b \in ArtifactSet : t[b] # "corrupt"
                    \/ \E a \in ArtifactSet :
                           t[a] = "corrupt" /\ \A b \in ArtifactSet \ {a} : t[b] = "ok"} }

\* a directory holding four loadable files that fit each other
WrittenDisk == [dir |-> TRUE, files |-> [a \in ArtifactSet |-> DefaultOk(a)]]

\* the models directory itself does not exist
NoDirDisk == [dir |-> FALSE, files |-> [a \in ArtifactSet |-> Absent("missing")]]

Disks == CompleteDisks \cup BrokenDisks \cup {NoDirDisk}

\* deployment/models as optimize_models finds it: complete, one file short, or
\* one file of 0 bytes
SourceDisks ==
    { WrittenDisk,
      [WrittenDisk EXCEPT !.files["selector_real"] = Absent("missing")],
      [WrittenDisk EXCEPT !.files["scaler_real"] = Absent("empty")] }

\* os.path.exists / Path.exists for a model file
FileExists(d, name) == d.dir /\ d.files[name].status # "missing"

\* the files optimize_models goes through, in its order
model_files == << "best_model_real", "scaler_real", "poly_real", "selector_real" >>

\* gzip.open(compressed_path, 'wb') of compress_model: the target file exists
\* and holds nothing yet
open_compressed(target, name) == [target EXCEPT !.files[name] = Absent("empty")]

\* f.write(model_data) of compress_model and the end of its with block: the
\* target holds the bytes of the source file, whatever they are; the
\* compressed form of no bytes is a file that does not deserialise
compress_model(source, target, name) ==
    [target EXCEPT !.files[name] = IF source.files[name].status = "empty"
                                   THEN Absent("corrupt")
                                   ELSE source.files[name]]

\* compression_ratio = (1 - compressed_size / original_size) * 100 raises
\* ZeroDivisionError for a source file of 0 bytes; nothing catches it
compression_ratio_raises(source, name) == source.files[name].status = "empty"

\* optimize_models has not started or has ended.  While it runs, pc is the
\* position in model_files and open tells whether the target of this round
\* has been opened for writing.
NotOptimizing == [pc |-> 0, open |-> FALSE, runs |-> 0, source |-> NoDirDisk]

\* the run after the round of model_files[o.pc]
NextRound(o) ==
    IF o.pc = Len(model_files) THEN [NotOptimizing EXCEPT !.runs = o.runs]
    ELSE [o EXCEPT !.pc = o.pc + 1, !.open = FALSE]

MaxOptimizerRuns == 1

Variants == {"deployment", "render", "vercel"}

\* the variants that load from optimized_models
OptimizedVariants == {"render", "vercel"}

\* the variants built on ModelManager
ManagerVariants == {"deployment", "render"}

(***************************************************************************)
(* ModelManager (deployment and render) and the module-level cache of the  *)
(* vercel variant.  models maps each loaded name to its fitted object.     *)
(***************************************************************************)
\* no load_models call is running.  While one runs, files are the names it
\* goes through, pc is the position of the file it reads next, and endpoint
\* and body are the request whose handler made the call ("startup" for
\* startup_event).
NotLoading == [pc |-> 0, files |-> << >>, endpoint |-> "", body |-> << >>]

\* a load_models call about to read its first file
Loading(files, endpoint, body) ==
    [pc |-> 1, files |-> files, endpoint |-> endpoint, body |-> body]

\* self.models[model_name] = ... / models_cache[model_name] = model
Store(ms, name, object) ==
    [a \in DOMAIN ms \cup {name} |-> IF a = name THEN object ELSE ms[a]]

\* joblib.load / load_compressed_model gives a fitted object
Loadable(d, name) == d.dir /\ d.files[name].status = "ok"

RECURSIVE LoadEach(_, _, _)
\* the for loop of ModelManager.load_models from position i on, on a
\* directory nobody writes meanwhile: stops at the first file that is missing
\* or fails to deserialise
LoadEach(d, ms, i) ==
    IF i > Len(ArtifactNames) THEN [models |-> ms, ok |-> TRUE]
    ELSE LET name == ArtifactNames[i]
         IN  IF ~Loadable(d, name) THEN [models |-> ms, ok |-> FALSE]
             ELSE LoadEach(d, Store(ms, name, d.files[name]), i + 1)

\* a faulty load_models that sets the flag before the files are read
load_models_FlagSetFirst(d, ms, flag) ==
    IF ~d.dir THEN [models |-> ms, is_loaded |-> flag, ok |-> FALSE]
    ELSE LET r == LoadEach(d, ms, 1)
         IN  [models |-> r.models, is_loaded |-> TRUE, ok |-> r.ok]

\* ModelManager.load_models: the new models dict, the new flag, the return value
load_models(d, ms, flag) ==
    IF ~d.dir THEN [models |-> ms, is_loaded |-> flag, ok |-> FALSE]
    ELSE LET r == LoadEach(d, ms, 1)
         IN  [models |-> r.models, is_loaded |-> (flag \/ r.ok), ok |-> r.ok]

\* ModelManager.is_ready
is_ready(flag) == flag

\* ModelManager.get_model: raises ValueError while the flag is unset
get_model(ms, flag, name) ==
    IF ~flag THEN [raised |-> TRUE, found |-> FALSE]
    ELSE [raised |-> FALSE, found |-> name \in DOMAIN ms]

\* a faulty lazy load that reads one file on every call: the first one the
\* cache does not hold
vercel_model_paths_OneFilePerCall(cache) ==
    LET missing == {i \in 1..Len(ArtifactNames) : ArtifactNames[i] \notin DOMAIN cache}
    IN  IF missing = {} THEN << >>
        ELSE << ArtifactNames[CHOOSE i \in missing : \A j \in missing : i <= j] >>

\* the files a call of load_models of the vercel variant reads, in the order
\* of model_paths: none when the cache holds anything ("if models_cache:
\* return models_cache")
vercel_model_paths(cache) == IF DOMAIN cache # {} THEN << >> ELSE ArtifactNames

EmptyModels == [a \in {} |-> Absent("missing")]

(***************************************************************************)
(* The four-stage pipeline on loaded artifacts.  The handlers check no      *)
(* width themselves: a fitted object that is handed a width other than the *)
(* one it was fitted with raises (sklearn: ValueError), and that exception *)
(* is what the generic "except Exception" of the handler catches.          *)
(***************************************************************************)
StageOrder == << "expand", "select", "scale", "predict" >>

\* no exception was caught on the way to the response
NoException == [type |-> "", raised_in |-> "", n_features |-> 0, n_features_in_ |-> 0]

\* the exception a fitted object raises in the call `at` when it is handed
\* `given` columns and was fitted with `fitted`.  Its text, str(e), is written
\* by the library and not by this repository; the model identifies it by the
\* call that raised and the two widths.
ArtifactError(at, given, fitted) ==
    [type |-> "ValueError", raised_in |-> at, n_features |-> given,
     n_features_in_ |-> fitted]

\* the raw output of the fitted regressor for this record: predict(...)[0]
RawOutput(m, body) ==
    AsType(FAdd(FMul(H(m.slope), H(body["actual_feed_mt"])), H(m.intercept)),
           m.output = "numpy.float64")

\* a faulty pipeline that scales the expanded columns before selecting
RunPipeline_ScaleBeforeSelect(ms, body) ==
    LET poly == ms["poly_real"]
        selector == ms["selector_real"]
        scaler == ms["scaler_real"]
        best_model == ms["best_model_real"]
        fail(done, at, call, given, fitted) ==
            [ok |-> FALSE, stages |-> done, failed |-> at, raw |-> FZero,
             error |-> ArtifactError(call, given, fitted)]
    IN  IF poly.n_in # Len(BASE_FEATURE_NAMES)
        THEN fail(<< >>, "expand", "poly.transform", Len(BASE_FEATURE_NAMES), poly.n_in)
        ELSE IF scaler.n_in # poly.n_out /\ scaler.n_in # selector.n_out
        THEN fail(<<"expand">>, "scale", "scaler.transform", poly.n_out, scaler.n_in)
        ELSE IF selector.n_in # poly.n_out
        THEN fail(<<"expand", "scale">>, "select", "selector.transform", poly.n_out,
                  selector.n_in)
        ELSE IF best_model.n_in # selector.n_out
        THEN fail(<<"expand", "scale", "select">>, "predict", "best_model.predict",
                  selector.n_out, best_model.n_in)
        ELSE [ok |-> TRUE, stages |-> <<"expand", "scale", "select", "predict">>,
              failed |-> "", raw |-> RawOutput(best_model, body), error |-> NoException]

\* poly.transform, selector.transform, scaler.transform, best_model.predict in
\* this order on ms; stages lists the stages that completed
RunPipeline(ms, body) ==
    LET poly == ms["poly_real"]
        selector == ms["selector_real"]
        scaler == ms["scaler_real"]
        best_model == ms["best_model_real"]
        fail(done, at, call, given, fitted) ==
            [ok |-> FALSE, stages |-> done, failed |-> at, raw |-> FZero,
             error |-> ArtifactError(call, given, fitted)]
    IN  IF poly.n_in # Len(BASE_FEATURE_NAMES)
        THEN fail(<< >>, "expand", "poly.transform", Len(BASE_FEATURE_NAMES), poly.n_in)
        ELSE IF selector.n_in # poly.n_out
        THEN fail(<<"expand">>, "select", "selector.transform", poly.n_out, selector.n_in)
        ELSE IF scaler.n_in # selector.n_out
        THEN fail(<<"expand", "select">>, "scale", "scaler.transform", selector.n_out,
                  scaler.n_in)
        ELSE IF best_model.n_in # scaler.n_out
        THEN fail(<<"expand", "select", "scale">>, "predict", "best_model.predict",
                  scaler.n_out, best_model.n_in)
        ELSE [ok |-> TRUE, stages |-> StageOrder, failed |-> "",
              raw |-> RawOutput(best_model, body), error |-> NoException]

\* all([best_model, scaler, poly, selector]) on dict.get results
AllPresent(ms) == ArtifactSet \subseteq DOMAIN ms

(***************************************************************************)
(* calculate_loss_breakdown (render).  Values of the returned LossBreakdown *)
(* are counts of hundredths, as round(x, 2) leaves them.                   *)
(***************************************************************************)
\* realistic bounds for refinery losses: max(lo, min(x, hi))
Clamp(lo, x, hi) == FMax(lo, FMin(x, hi))

\* faulty weights that let raw material dominate
base_weights_RawMaterialHeavy ==
    [raw_material |-> H(65), energy |-> H(10), process |-> H(10), waste |-> H(10),
     efficiency |-> H(5)]

base_weights ==
    [raw_material |-> H(30), energy |-> H(20), process |-> H(25), waste |-> H(15),
     efficiency |-> H(10)]

Categories == {"raw_material", "energy", "process", "waste", "efficiency"}

\* faulty modifiers without their upper bounds
Modifiers_Uncapped(body) ==
    [raw_material |-> FAdd(FInt(1), FDiv(H(body["feed_ffa"]), FInt(10))),
     energy       |-> FAdd(FInt(1), FDiv(H(body["vapour_pressure"]), FInt(5))),
     process      |-> FAdd(FInt(1), FDiv(H(body["moisture"]), H(20))),
     waste        |-> FAdd(FInt(1), FDiv(H(body["actual_feed_mt"]), FInt(1000))),
     efficiency   |-> FInt(1)]

\* the bounded modifier of each category
Modifiers(body) ==
    [raw_material |-> FMin(FAdd(FInt(1), FDiv(H(body["feed_ffa"]), FInt(10))), FInt(2)),
     energy       |-> FMin(FAdd(FInt(1), FDiv(H(body["vapour_pressure"]), FInt(5))), FInt(2)),
     process      |-> FMin(FAdd(FInt(1), FDiv(H(body["moisture"]), H(20))), FInt(2)),
     waste        |-> FMin(FAdd(FInt(1), FDiv(H(body["actual_feed_mt"]), FInt(1000))), H(150)),
     efficiency   |-> FInt(1)]

\* a + b + c + d + e as Python adds them, left to right
Sum5(v) ==
    FAdd(FAdd(FAdd(FAdd(v.raw_material, v.energy), v.process), v.waste), v.efficiency)

\* total_modifier: the weighted modifiers added left to right
TotalModifier(m) ==
    Only({Sum5([raw_material |-> FMul(w.raw_material, m.raw_material),
                energy       |-> FMul(w.energy, m.energy),
                process      |-> FMul(w.process, m.process),
                waste        |-> FMul(w.waste, m.waste),
                efficiency   |-> FMul(w.efficiency, m.efficiency)]) :
          w \in {base_weights}})

\* one component before capping: (total_loss * weight * modifier) / total_modifier
Weighted(total_loss, weight, modifier, total_modifier) ==
    FDiv(FMul(FMul(total_loss, weight), modifier), total_modifier)

\* the individual components before capping
WeightedComponents(total_loss, body) ==
    Only({Only({[raw_material |-> Weighted(total_loss, w.raw_material,
                                           m.raw_material, total_modifier),
                 energy       |-> Weighted(total_loss, w.energy,
                                           m.energy, total_modifier),
                 process      |-> Weighted(total_loss, w.process,
                                           m.process, total_modifier),
                 waste        |-> Weighted(total_loss, w.waste,
                                           m.waste, total_modifier),
                 efficiency   |-> Weighted(total_loss, w.efficiency,
                                           m.efficiency, total_modifier)] :
                total_modifier \in {TotalModifier(m)}}) :
          m \in {Modifiers(body)}, w \in {base_weights}})

\* no single component above 60% of the total or 3%
MaxIndividualLoss(total_loss) == FMin(FMul(total_loss, H(60)), FInt(3))

CapComponents(comp, total_loss) ==
    Only({[raw_material |-> FMin(comp.raw_material, max_individual_loss),
           energy       |-> FMin(comp.energy, max_individual_loss),
           process      |-> FMin(comp.process, max_individual_loss),
           waste        |-> FMin(comp.waste, max_individual_loss),
           efficiency   |-> FMin(comp.efficiency, max_individual_loss)] :
          max_individual_loss \in {MaxIndividualLoss(total_loss)}})

\* renormalise so that the sum equals total_loss
Renormalize(comp, total_loss) ==
    Only({IF FLt(FZero, current_sum)
          THEN Only({[raw_material |-> FMul(comp.raw_material, scale_factor),
                      energy       |-> FMul(comp.energy, scale_factor),
                      process      |-> FMul(comp.process, scale_factor),
                      waste        |-> FMul(comp.waste, scale_factor),
                      efficiency   |-> FMul(comp.efficiency, scale_factor)] :
                     scale_factor \in {FDiv(total_loss, current_sum)}})
          ELSE comp :
          current_sum \in {Sum5(comp)}})

\* the components before the final rounding
UnroundedBreakdown(prediction, body) ==
    Only({Only({Only({Renormalize(capped, total_loss) :
                      capped \in {CapComponents(weighted, total_loss)}}) :
                weighted \in {WeightedComponents(total_loss, body)}}) :
          total_loss \in {Clamp(H(10), prediction, FInt(5))}})

calculate_loss_breakdown(prediction, body) ==
    Only({[total_loss_percentage |-> Round2(Clamp(H(10), prediction, FInt(5))),
           raw_material_loss |-> Round2(comp.raw_material),
           energy_loss |-> Round2(comp.energy),
           process_loss |-> Round2(comp.process),
           waste_loss |-> Round2(comp.waste),
           efficiency_loss |-> Round2(comp.efficiency)] :
          comp \in {UnroundedBreakdown(prediction, body)}})

(***************************************************************************)
(* Responses.  trace lists, in order, what the handler did for the         *)
(* request: "ready_check" (is_ready() / load_models() consulted), then the *)
(* pipeline stages that completed.                                         *)
(***************************************************************************)
NoResponse == [kind |-> "none", status |-> 0, trace |-> << >>]

\* an HTTPException the handler raises with a literal detail (or FastAPI's own
\* 422 / 500) reaching the caller
Failure(code, tr, why) ==
    [kind |-> "error", status |-> code, trace |-> tr, detail |-> why,
     exception |-> NoException]

\* "except Exception as e: raise HTTPException(status_code=500,
\* detail=f"...: {str(e)}")": detail is the literal of the handler, followed in
\* the response by str(e), the text of the exception e that was caught
Raised(tr, why, e) ==
    [kind |-> "error", status |-> 500, trace |-> tr, detail |-> why, exception |-> e]

\* the UnboundLocalError of reading feed_amount before it is bound
UnboundLocal == [type |-> "UnboundLocalError", raised_in |-> "enhance_prediction",
                 n_features |-> 0, n_features_in_ |-> 0]

\* "high" if abs(prediction) < 10 else "medium" if abs(prediction) < 20 else "low"
LegacyConfidence(prediction) ==
    IF FLt(FAbs(prediction), FInt(10)) THEN "high"
    ELSE IF FLt(FAbs(prediction), FInt(20)) THEN "medium"
    ELSE "low"

\* the PredictionResponse of predict_loss; prediction is the double itself
LegacyResponse(tr, prediction) ==
    [kind |-> "prediction", status |-> 200, trace |-> tr,
     prediction |-> Float(prediction), confidence |-> LegacyConfidence(prediction)]

\* a faulty predict_loss without "except HTTPException: raise": the generic
\* handler turns the 503 of the readiness check into 500
predict_loss_SwallowsHTTPException(ms, flag, body) ==
    IF ~is_ready(flag) THEN Failure(500, <<"ready_check">>, "Prediction failed: ")
    ELSE IF ~AllPresent(ms)
            THEN Failure(500, <<"ready_check">>, "Prediction failed: ")
    ELSE Only({IF ~p.ok
               THEN Raised(<<"ready_check">> \o p.stages, "Prediction failed: ", p.error)
               ELSE LegacyResponse(<<"ready_check">> \o p.stages, p.raw) :
               p \in {RunPipeline(ms, body)}})

\* predict_loss of the deployment variant, for a body that passed validation
predict_loss(ms, flag, body) ==
    IF ~is_ready(flag)
    THEN Failure(503, <<"ready_check">>, "Models not loaded. Please check server status.")
    ELSE IF ~AllPresent(ms)
            THEN Failure(503, <<"ready_check">>, "Required models not available")
    ELSE Only({IF ~p.ok
               THEN Raised(<<"ready_check">> \o p.stages, "Prediction failed: ", p.error)
               ELSE LegacyResponse(<<"ready_check">> \o p.stages, p.raw) :
               p \in {RunPipeline(ms, body)}})

\* predict_loss_legacy of render: the body of predict_loss, with its own
\* literal in the generic handler
predict_loss_legacy(ms, flag, body) ==
    Only({IF r.kind = "error" /\ r.status = 500
          THEN [r EXCEPT !.detail = "Legacy prediction failed: "]
          ELSE r :
          r \in {predict_loss(ms, flag, body)}})

\* the five plausibility conditions of enhance_prediction.  A request field
\* below a literal with two decimals is below it as a double as well, so the
\* fields are compared as hundredths.
ConfidenceFactors(prediction, body) ==
    << FLt(FAbs(FSub(prediction, FInt(2))), FInt(1)),
       body["feed_ffa"] < 300,
       body["moisture"] < 30,
       body["percentage_yield"] > 8000,
       body["actual_feed_mt"] > 5000 >>

\* sum(confidence_factors) / len(confidence_factors)
ConfidenceScore(factors) ==
    FDiv(FInt(Cardinality({i \in 1..Len(factors) : factors[i]})), FInt(Len(factors)))

\* the score bucketed at 0.8 and 0.6
ConfidenceLevel(factors) ==
    IF FLe(H(80), ConfidenceScore(factors)) THEN "high"
    ELSE IF FLe(H(60), ConfidenceScore(factors)) THEN "medium"
    ELSE "low"

\* the bounded percentage enhance_prediction derives from the raw output:
\* max(0.1, min((raw_prediction / feed_amount) * 100, 5.0)), or 1.0
PredictionPercentage(raw, body) ==
    IF body["actual_feed_mt"] > 0
    THEN Clamp(H(10), FMul(FDiv(raw, H(body["actual_feed_mt"])), FInt(100)), FInt(5))
    ELSE FInt(1)

\* calculate_yield_analysis; the returned values in hundredths
calculate_yield_analysis(prediction, body) ==
    Only({[overall_yield_percentage |-> Round2(overall_yield),
           theoretical_maximum_yield |-> 9800,
           actual_yield_percentage |-> Round2(overall_yield),
           yield_efficiency |-> Round2(FMul(FDiv(overall_yield, FInt(98)), FInt(100))),
           process_efficiency |-> Round2(H(body["percentage_yield"])),
           quality_score |->
               Round2(FMin(FInt(100),
                           FDiv(FAdd(overall_yield, H(body["percentage_yield"])), FInt(2))))] :
          overall_yield \in {FSub(FInt(100), FMax(FZero, prediction))}})

\* calculate_process_metrics; the returned values in hundredths
calculate_process_metrics(body, prediction) ==
    [total_processing_time_hours |-> Round2(FDiv(H(body["actual_feed_mt"]), FInt(50))),
     energy_efficiency_percentage |->
         Round2(FMax(FInt(60), FSub(FInt(100), FMul(H(body["vapour_pressure"]), FInt(2))))),
     chemical_efficiency_percentage |->
         Round2(FMax(FInt(70),
                     FSub(FInt(100),
                          FDiv(FAdd(H(body["bleaching_earth_quantity"]),
                                    H(body["phosphoric_acid_quantity"])), FInt(100))))),
     equipment_utilization_percentage |->
         Round2(FMin(FInt(95), FAdd(FInt(80), FDiv(H(body["percentage_yield"]), FInt(5))))),
     waste_generation_percentage |->
         Round2(FMax(FZero, FAdd(FMul(H(body["moisture"]), FInt(2)),
                                 FMul(H(body["feed_ffa"]), H(50))))),
     cost_per_unit |->
         Round2(FDiv(FMul(H(body["actual_feed_mt"]),
                          FAdd(FInt(1), FDiv(prediction, FInt(100)))), FInt(1000)))]

\* the EnhancedPredictionResponse without processing_time_ms, timestamp and
\* request_id, which differ from call to call
EnhancedResponse(tr, prediction, body) ==
    [kind |-> "enhanced", status |-> 200, trace |-> tr,
     loss_percentage |-> Round2(Float(prediction)),
     yield_percentage |-> Round2(FSub(FInt(100), Float(prediction))),
     confidence_level |-> ConfidenceLevel(ConfidenceFactors(prediction, body)),
     loss_breakdown |-> calculate_loss_breakdown(prediction, body),
     yield_analysis |-> calculate_yield_analysis(prediction, body),
     process_metrics |-> calculate_process_metrics(body, prediction),
     model_version |-> "3.0.0"]

\* enhance_prediction (render) for a body that passed validation.  With
\* convert_to_percentage false the branch reads feed_amount, which is bound
\* only in the other branch: UnboundLocalError, reported as 500.
enhance_prediction(ms, flag, body) ==
    IF ~is_ready(flag)
    THEN Failure(503, <<"ready_check">>, "Models not loaded. Please check server status.")
    ELSE IF ~AllPresent(ms)
            THEN Failure(503, <<"ready_check">>, "Required models not available")
    ELSE Only({IF ~p.ok
               THEN Raised(<<"ready_check">> \o p.stages, "Enhanced prediction failed: ",
                           p.error)
               ELSE IF ~ConvertToPercentage(body)
                    THEN Raised(<<"ready_check">> \o p.stages,
                                "Enhanced prediction failed: ", UnboundLocal)
               ELSE EnhancedResponse(<<"ready_check">> \o p.stages,
                                     PredictionPercentage(p.raw, body), body) :
               p \in {RunPipeline(ms, body)}})

\* the PredictionResponse of the vercel variant
VercelResponse(prediction, confidence, tr) ==
    [kind |-> "vercel", status |-> 200, trace |-> tr,
     loss_percentage |-> Round2(Float(prediction)),
     yield_percentage |-> Round2(FSub(FInt(100), Float(prediction))),
     confidence_level |-> confidence]

\* max(0.1, min(raw_prediction / data.actual_feed_mt * 100, 5.0)), or the raw
\* output itself within the same bounds when there is no feed
VercelScaled(raw, body) ==
    IF body["actual_feed_mt"] > 0
    THEN Clamp(H(10), FMul(FDiv(raw, H(body["actual_feed_mt"])), FInt(100)), FInt(5))
    ELSE Clamp(H(10), raw, FInt(5))

\* max(0.5, min(3.5, 2.0 + (data.feed_ffa * 0.2) + (data.moisture * 2.0)))
VercelFallback(body) ==
    FMax(H(50), FMin(H(350), FAdd(FAdd(FInt(2), FMul(H(body["feed_ffa"]), H(20))),
                                  FMul(H(body["moisture"]), FInt(2)))))

\* "high" if abs(prediction - 2.0) < 1.0 else "medium"
VercelConfidence(prediction) ==
    IF FLt(FAbs(FSub(prediction, FInt(2))), FInt(1)) THEN "high" ELSE "medium"

\* the answer for a pipeline that returned raw
VercelPredicted(raw, body, tr) ==
    Only({VercelResponse(prediction, VercelConfidence(prediction), tr) :
          prediction \in {VercelScaled(raw, body)}})

\* predict_loss of the vercel variant on the cache load_models() returned
vercel_predict_loss(cache, body) ==
    IF DOMAIN cache = {} THEN VercelResponse(FInt(2), "medium", <<"ready_check">>)
    ELSE IF ~AllPresent(cache) THEN VercelResponse(FInt(2), "medium", <<"ready_check">>)
    ELSE Only({IF ~p.ok
               THEN VercelResponse(VercelFallback(body), "medium",
                                   <<"ready_check">> \o p.stages)
               ELSE VercelPredicted(p.raw, body, <<"ready_check">> \o p.stages) :
               p \in {RunPipeline(cache, body)}})

(***************************************************************************)
(* batch_predict (render).                                                 *)
(***************************************************************************)
\* BatchPredictionRequest.requests: Field(..., max_items=100)
MAX_ITEMS == 100

\* a faulty batch validation that forgets max_items
ValidBatch_NoMaxItems(items) ==
    \A i \in 1..Len(items) : ValidInput(items[i])

\* pydantic validation of the whole batch body: the list bound, then every item
ValidBatch(items) ==
    /\ Len(items) <= MAX_ITEMS
    /\ \A i \in 1..Len(items) : ValidInput(items[i])

\* the smallest member of a non-empty set of integers
SetMin(S) == CHOOSE x \in S : \A y \in S : x <= y

\* what enhance_prediction returns or raises for each item of the batch;
\* enhance_prediction is a function of its arguments, so equal items have
\* one result
ItemResults(ms, flag, items) ==
    Only({[i \in 1..Len(items) |-> result[items[i]]] :
          result \in {[item \in {items[i] : i \in 1..Len(items)} |->
                          enhance_prediction(ms, flag, item)]}})

\* a faulty batch_predict whose statistics accept an empty list
batch_predict_EmptyStatistics(results) ==
    LET failing == {i \in 1..Len(results) : results[i].kind = "error"}
        reached == IF failing = {} THEN Len(results) ELSE SetMin(failing)
        traces == [i \in 1..reached |-> results[i].trace]
    IN  IF failing # {}
        THEN [kind |-> "error", status |-> 500, trace |-> << >>,
              detail |-> "Batch prediction failed", item_traces |-> traces]
        ELSE [kind |-> "batch", status |-> 200, trace |-> << >>,
              total_predictions |-> Len(results), predictions |-> results,
              item_traces |-> traces]

\* batch_predict for a body that passed validation, given ItemResults.  The
\* for loop calls enhance_prediction item by item; its first exception leaves
\* the loop and the handler's except turns it into 500.  np.min of an empty
\* list raises ValueError.  item_traces holds the trace of every item the loop
\* reached.
batch_predict(results) ==
    LET failing == {i \in 1..Len(results) : results[i].kind = "error"}
        reached == IF failing = {} THEN Len(results) ELSE SetMin(failing)
        traces == [i \in 1..reached |-> results[i].trace]
        failed == [kind |-> "error", status |-> 500, trace |-> << >>,
                   detail |-> "Batch prediction failed", item_traces |-> traces]
    IN  IF failing # {} THEN failed
        ELSE IF Len(results) = 0 THEN failed
        ELSE [kind |-> "batch", status |-> 200, trace |-> << >>,
              total_predictions |-> Len(results), predictions |-> results,
              item_traces |-> traces]

\* a batch body rejected by validation: no item reaches the handler
BatchRejected ==
    [kind |-> "error", status |-> 422, trace |-> << >>, detail |-> "validation",
     item_traces |-> << >>]

(***************************************************************************)
(* The analysis endpoints of render.  Each calls enhance_prediction inside *)
(* "try: ... except Exception", which also catches HTTPException.          *)
(***************************************************************************)
\* the HTTPException enhance_prediction raised
HTTPError == [type |-> "HTTPException", raised_in |-> "enhance_prediction",
              n_features |-> 0, n_features_in_ |-> 0]

\* a faulty handler with "except HTTPException: raise" in front
Caught_PassesThrough(r, why) == r

\* the handler's "except Exception": whatever enhance_prediction raised,
\* HTTPException included, leaves as 500 with the handler's literal
Caught(r, why) == Raised(r.trace, why, HTTPError)

\* POST /analysis/yield
analyze_yield(ms, flag, body) ==
    Only({IF r.kind = "error" THEN Caught(r, "Yield analysis failed: ")
          ELSE Only({[kind |-> "yield_report", status |-> 200, trace |-> r.trace,
                      yield_analysis |-> ya,
                      performance |-> IF ya.quality_score > 8000 THEN "good"
                                      ELSE "needs improvement"] :
                     ya \in {r.yield_analysis}}) :
          r \in {enhance_prediction(ms, flag, body)}})

\* POST /analysis/loss-breakdown
analyze_loss_breakdown(ms, flag, body) ==
    Only({IF r.kind = "error" THEN Caught(r, "Loss breakdown analysis failed: ")
          ELSE [kind |-> "loss_report", status |-> 200, trace |-> r.trace,
                loss_breakdown |-> r.loss_breakdown] :
          r \in {enhance_prediction(ms, flag, body)}})

\* POST /analysis/process-efficiency
analyze_process_efficiency(ms, flag, body) ==
    Only({IF r.kind = "error" THEN Caught(r, "Process efficiency analysis failed: ")
          ELSE Only({LET scores == [Energy |-> pm.energy_efficiency_percentage,
                                    Chemical |-> pm.chemical_efficiency_percentage,
                                    Equipment |-> pm.equipment_utilization_percentage]
                     IN  [kind |-> "efficiency_report", status |-> 200,
                          trace |-> r.trace, process_metrics |-> pm,
                          overall_efficiency |->
                              Round2(FDiv(FAdd(FAdd(H(scores.Energy), H(scores.Chemical)),
                                               H(scores.Equipment)), FInt(3))),
                          bottlenecks |-> {m \in DOMAIN scores : scores[m] < 8000}] :
                     pm \in {r.process_metrics}}) :
          r \in {enhance_prediction(ms, flag, body)}})

\* OptimizationRequest: target_loss_percentage is << >> for None or <<t>> with
\* ge=0, le=100; optimization_priority must match the pattern
PRIORITIES == {"cost_efficiency", "quality_maximization", "yield_optimization"}

ValidOptimization(body, target, priority) ==
    /\ ValidInput(body)
    /\ (Len(target) = 1 => (target[1] >= 0 /\ target[1] <= 10000))
    /\ priority \in PRIORITIES

OptimizationSuggestion(parameter, current, suggested, improvement, confidence, difficulty) ==
    [parameter |-> parameter, current_value |-> current, suggested_value |-> suggested,
     expected_improvement_percentage |-> improvement, confidence_level |-> confidence,
     implementation_difficulty |-> difficulty]

\* bleaching_earth_quantity + phosphoric_acid_quantity + citric_acid_quantity
TotalChemicals(body) ==
    FAdd(FAdd(H(body["bleaching_earth_quantity"]), H(body["phosphoric_acid_quantity"])),
         H(body["citric_acid_quantity"]))

\* the three heuristic suggestions, in the order the handler appends them;
\* current_value and suggested_value are doubles, the expected improvement
\* (5.0, 3.0, 4.0) is in hundredths
Suggestions(body) ==
    (IF body["feed_ffa"] > 200
     THEN << OptimizationSuggestion("feed_ffa", H(body["feed_ffa"]),
                                    FMax(FInt(1), FSub(H(body["feed_ffa"]), H(50))),
                                    500, "high", "medium") >>
     ELSE << >>)
    \o (IF body["moisture"] > 20
        THEN << OptimizationSuggestion("moisture", H(body["moisture"]), H(15),
                                       300, "medium", "easy") >>
        ELSE << >>)
    \o Only({IF FLt(FInt(100), total_chemicals)
             THEN << OptimizationSuggestion("chemical_quantities", total_chemicals,
                                            FMul(total_chemicals, H(90)),
                                            400, "medium", "easy") >>
             ELSE << >> :
             total_chemicals \in {TotalChemicals(body)}})

RECURSIVE SumImprovement(_)
\* sum(s.expected_improvement_percentage for s in suggestions), in
\* hundredths: the summands are whole numbers, which doubles add exactly
SumImprovement(suggestions) ==
    IF suggestions = << >> THEN 0
    ELSE Head(suggestions).expected_improvement_percentage + SumImprovement(Tail(suggestions))

\* a faulty handler that limits the reduction to what the target asks for
optimize_parameters_AimsAtTarget(ms, flag, body, target, priority) ==
    Only({IF r.kind = "error" THEN Caught(r, "Parameter optimization failed: ")
          ELSE LET current_loss == r.loss_percentage
                   suggestions == Suggestions(body)
                   wanted == IF Len(target) = 1 /\ target[1] < current_loss
                             THEN current_loss - target[1] ELSE 2000
                   potential_loss_reduction ==
                       Min(wanted, Min(2000, SumImprovement(suggestions)))
                   optimization_score ==
                       IF current_loss > 0
                       THEN FMin(FInt(100), FMul(FDiv(H(potential_loss_reduction),
                                                      H(current_loss)), FInt(100)))
                       ELSE FInt(100)
               IN  [kind |-> "optimization", status |-> 200, trace |-> r.trace,
                    current_loss_percentage |-> current_loss,
                    potential_loss_reduction |-> potential_loss_reduction,
                    optimization_score |-> Round2(optimization_score),
                    suggestions |-> suggestions,
                    expected_roi_percentage |->
                        Round2(FMul(H(potential_loss_reduction), H(150))),
                    implementation_timeline_days |-> Len(suggestions) * 7] :
          r \in {enhance_prediction(ms, flag, body)}})

\* POST /optimize/parameters for a request that passed validation
optimize_parameters(ms, flag, body, target, priority) ==
    Only({IF r.kind = "error" THEN Caught(r, "Parameter optimization failed: ")
          ELSE LET current_loss == r.loss_percentage
                   suggestions == Suggestions(body)
                   potential_loss_reduction == Min(2000, SumImprovement(suggestions))
                   optimization_score ==
                       IF current_loss > 0
                       THEN FMin(FInt(100), FMul(FDiv(H(potential_loss_reduction),
                                                      H(current_loss)), FInt(100)))
                       ELSE FInt(100)
               IN  [kind |-> "optimization", status |-> 200, trace |-> r.trace,
                    current_loss_percentage |-> current_loss,
                    potential_loss_reduction |-> potential_loss_reduction,
                    optimization_score |-> Round2(optimization_score),
                    suggestions |-> suggestions,
                    expected_roi_percentage |->
                        Round2(FMul(H(potential_loss_reduction), H(150))),
                    implementation_timeline_days |-> Len(suggestions) * 7] :
          r \in {enhance_prediction(ms, flag, body)}})

\* default_standards of analyze_quality
default_standards ==
    [yield_percentage |-> 8500, process_efficiency |-> 8000, energy_efficiency |-> 7500,
     chemical_efficiency |-> 8500]

\* {**default_standards, **data.quality_standards}
MergeStandards(defaults, given) ==
    [k \in DOMAIN defaults \cup DOMAIN given |->
        IF k \in DOMAIN given THEN given[k] ELSE defaults[k]]

\* (value / standard) * 100
Compliance(value, standard) == FMul(FDiv(H(value), H(standard)), FInt(100))

QualityLevel(overall_compliance) ==
    IF FLe(FInt(95), overall_compliance) THEN "excellent"
    ELSE IF FLe(FInt(85), overall_compliance) THEN "good"
    ELSE IF FLe(FInt(70), overall_compliance) THEN "fair"
    ELSE "poor"


\* compliance_scores of analyze_quality
ComplianceScores(a, standards) ==
    [yield_compliance |->
         Compliance(a.yield_analysis.actual_yield_percentage,
                    standards["yield_percentage"]),
     process_compliance |->
         Compliance(a.yield_analysis.process_efficiency,
                    standards["process_efficiency"]),
     energy_compliance |->
         Compliance(a.process_metrics.energy_efficiency_percentage,
                    standards["energy_efficiency"]),
     chemical_compliance |->
         Compliance(a.process_metrics.chemical_efficiency_percentage,
                    standards["chemical_efficiency"])]

\* np.mean(list(compliance_scores.values())): the four scores added in the
\* order of the dictionary, divided by their number; a numpy.float64
OverallCompliance(scores) ==
    AsType(FDiv(FAdd(FAdd(FAdd(scores.yield_compliance, scores.process_compliance),
                          scores.energy_compliance), scores.chemical_compliance),
                FInt(4)),
           TRUE)

\* the dictionary analyze_quality returns
QualityReport(trace, a, scores, overall_compliance) ==
    [kind |-> "quality", status |-> 200, trace |-> trace,
     overall_quality_score |-> a.yield_analysis.quality_score,
     quality_level |-> QualityLevel(overall_compliance),
     compliance_percentage |-> Round2(overall_compliance),
     quality_breakdown |-> scores,
     recommendations |->
         (IF FLt(scores.yield_compliance, FInt(100))
          THEN <<"Improve yield optimization to meet quality standards">>
          ELSE << >>)
         \o (IF FLt(scores.energy_compliance, FInt(100))
             THEN <<"Enhance energy efficiency processes">> ELSE << >>)
         \o (IF FLt(scores.chemical_compliance, FInt(100))
             THEN <<"Optimize chemical usage and efficiency">> ELSE << >>),
     improvement_potential |-> Round2(FSub(FInt(100), overall_compliance))]

\* the body of analyze_quality after enhance_prediction returned: the
\* scores, their mean and the report, each computed once from the last
QualityAnalysis(r, standards) ==
    Only({Only({QualityReport(r.trace, r, scores, overall_compliance) :
                overall_compliance \in {OverallCompliance(scores)}}) :
          scores \in {ComplianceScores(r, standards)}})

\* a faulty handler that ignores the caller's quality_standards
analyze_quality_DefaultsOnly(ms, flag, body, quality_standards) ==
    Only({IF r.kind = "error" THEN Caught(r, "Quality analysis failed: ")
          ELSE QualityAnalysis(r, default_standards) :
          r \in {enhance_prediction(ms, flag, body)}})

\* POST /analysis/quality for a request that passed validation; a standard
\* of 0 makes the division raise ZeroDivisionError
analyze_quality(ms, flag, body, quality_standards) ==
    Only({IF r.kind = "error" THEN Caught(r, "Quality analysis failed: ")
          ELSE IF \E k \in DOMAIN default_standards : standards[k] = 0
               THEN Failure(500, r.trace,
                            "Quality analysis failed: float division by zero")
          ELSE QualityAnalysis(r, standards) :
          r \in {enhance_prediction(ms, flag, body)},
          standards \in {MergeStandards(default_standards, quality_standards)}})

(***************************************************************************)
(* /health and /models/status.                                             *)
(***************************************************************************)
\* health_check of the ModelManager variants
health_check(flag) ==
    [kind |-> "health", status |-> 200, trace |-> << >>,
     health |-> IF is_ready(flag) THEN "ok" ELSE "degraded",
     models_loaded |-> is_ready(flag)]

\* health_check of the vercel variant: models_loaded is len(models)
vercel_health_check(cache) ==
    [kind |-> "vercel_health", status |-> 200, trace |-> << >>,
     health |-> "ok", models_loaded |-> Cardinality(DOMAIN cache)]

\* models_status of the ModelManager variants: get_model raises ValueError
\* while the flag is unset and nothing catches it
models_status(ms, flag) ==
    IF \E a \in ArtifactSet : get_model(ms, flag, a).raised
    THEN Failure(500, << >>, "Internal Server Error")
    ELSE [kind |-> "models_status", status |-> 200, trace |-> << >>,
          models_loaded |-> is_ready(flag),
          models |-> [a \in ArtifactSet |-> get_model(ms, flag, a).found]]

\* models_status of the vercel variant
vercel_models_status(cache) ==
    [kind |-> "models_status", status |-> 200, trace |-> << >>,
     models_loaded |-> (DOMAIN cache # {}),
     models |-> [a \in ArtifactSet |-> a \in DOMAIN cache]]

(***************************************************************************)
(* The fix script (fix_critical_issue.py).  fixer is the run of main():    *)
(* pc its position, backup the copies backup_models made, consistent what  *)
(* analyze_issue returned, loaded the objects fix_pipeline read, selector  *)
(* what fix_selector returned, written the files save_fixed_models has     *)
(* dumped, open whether the file it dumps next is open for writing,        *)
(* outcome how the run ended.                                              *)
(***************************************************************************)
NotRunning ==
    [pc |-> "idle", backup |-> << >>, consistent |-> FALSE, loaded |-> << >>,
     selector |-> Absent("missing"), written |-> {}, open |-> FALSE, outcome |-> ""]

\* the order of the joblib.dump calls of save_fixed_models
save_order == << "selector_real", "poly_real", "scaler_real", "best_model_real" >>

\* the arguments of save_fixed_models: the objects fix_pipeline loaded, with
\* the selector fix_selector returned
fixed_models(f) ==
    [name \in DOMAIN f.loaded |->
        IF name = "selector_real" THEN f.selector ELSE f.loaded[name]]

\* joblib.load succeeds on each of the four files
AllLoadable(d) == d.dir /\ \A name \in ArtifactSet : d.files[name].status = "ok"

\* analyze_issue: True only if the files load and the widths compare equal;
\* has_attr tells whether the loaded selector exposes n_features_out_ (the
\* read raises AttributeError otherwise); every exception gives False
analyze_issue(d, has_attr) ==
    /\ AllLoadable(d)
    /\ has_attr
    /\ d.files["selector_real"].n_out = d.files["scaler_real"].n_in

\* target_features = 14
TARGET_FEATURES == 14

\* fix_selector: a new SelectKBest(k=14) fitted on the expanded sample unless
\* selector.k is 14 already
fix_selector(poly, selector) ==
    IF selector.n_out # TARGET_FEATURES
    THEN Artifact("ok", poly.n_out, TARGET_FEATURES, 0, 0)
    ELSE selector

\* a faulty pipeline test that leaves out the scaler and the model
TestFixedPipeline_SelectorOnly(poly, selector, scaler, model) ==
    /\ poly.n_in = Len(BASE_FEATURE_NAMES)
    /\ selector.n_in = poly.n_out

\* the try block of fix_pipeline: expander, fixed selector, scaler, model
TestFixedPipeline(poly, selector, scaler, model) ==
    /\ poly.n_in = Len(BASE_FEATURE_NAMES)
    /\ selector.n_in = poly.n_out
    /\ scaler.n_in = selector.n_out
    /\ model.n_in = scaler.n_out

(***************************************************************************)
(* Request bodies the clients send.                                        *)
(***************************************************************************)
\* the record of the repository's tests
BaseBody ==
    [percentage_yield |-> 8550, gravity |-> 85, vapour_pressure |-> 230,
     ten_percent_distillation |-> 18000, fraction_end_point |-> 35000,
     actual_feed_mt |-> 10050, feed_ffa |-> 120, moisture |-> 50,
     bleaching_earth_quantity |-> 1500, phosphoric_acid_quantity |-> 250,
     citric_acid_quantity |-> 180, phenamol_quantity |-> 80,
     fractionation_feed |-> 9500, phenomol_consumption |-> 60]

FeedValues == {0, 4000, 10050}

FfaValues == {120, 310}

MoistureValues == {20, 50}

\* feed_ffa, moisture and percentage_yield of the enumerated records: every
\* plausibility condition met, none met, and the record of the tests
Profiles == {<<120, 20, 8550>>, <<310, 50, 7900>>, <<120, 50, 8550>>}

\* BaseBody with a field added or replaced
With(body, f, v) == [g \in DOMAIN body \cup {f} |-> IF g = f THEN v ELSE body[g]]

\* BaseBody with a field left out
Without(body, f) == [g \in DOMAIN body \ {f} |-> body[g]]

PlainBodies ==
    { [BaseBody EXCEPT !["actual_feed_mt"] = fd, !["feed_ffa"] = p[1],
                       !["moisture"] = p[2], !["percentage_yield"] = p[3]] :
        <<fd, p>> \in FeedValues \X Profiles }

\* bodies that pass validation; some carry convert_to_percentage = false
ValidBodies ==
    PlainBodies \cup
    { With([BaseBody EXCEPT !["actual_feed_mt"] = fd], "convert_to_percentage", FALSE) :
        fd \in FeedValues }

\* one field below 0, one field above its upper limit, or one field missing
InvalidBodies ==
    { With(BaseBody, f, -1) : f \in FeatureNames } \cup
    { With(BaseBody, f, FieldMax(f) + 5000) : f \in {g \in FeatureNames : FieldMax(g) >= 0} } \cup
    { Without(BaseBody, f) : f \in FeatureNames }

Bodies == ValidBodies \cup InvalidBodies

\* the items of the batches enumerated item by item
BatchItems ==
    { BaseBody,
      [BaseBody EXCEPT !["percentage_yield"] = 15000],
      With(BaseBody, "convert_to_percentage", FALSE) }

RECURSIVE SeqsUpTo(_, _)
\* all sequences over S of length at most n
SeqsUpTo(S, n) ==
    IF n = 0 THEN {<< >>}
    ELSE LET shorter == SeqsUpTo(S, n - 1)
         IN  shorter \cup {Append(q, x) : q \in {t \in shorter : Len(t) = n - 1}, x \in S}

\* short batches of every composition, and homogeneous batches around the limit
Batches ==
    SeqsUpTo(BatchItems, MaxBatchLen) \cup
    { [i \in 1..n |-> BaseBody] : n \in {MAX_ITEMS - 1, MAX_ITEMS, MAX_ITEMS + 1} }

(***************************************************************************)
(* The service as a state machine.  Handlers are async functions without   *)
(* an await inside, so the event loop runs each to completion: one request *)
(* is handled at a time, and Deliver hands its response to the caller.     *)
(***************************************************************************)
NoRequest == [endpoint |-> "", body |-> << >>, items |-> << >>]

Request(endpoint, body, items) == [endpoint |-> endpoint, body |-> body, items |-> items]

\* the caller has received no answer yet
NoAnswers == [k \in {} |-> NoResponse]

Init ==
    /\ variant \in Variants
    /\ disk \in Disks
    /\ models = EmptyModels
    /\ is_loaded = FALSE
    /\ started = FALSE
    /\ loads = 0
    /\ req = NoRequest
    /\ resp = NoResponse
    /\ fixer = NotRunning
    /\ optimizer = NotOptimizing
    /\ loader = NotLoading
    /\ answered = NoAnswers

\* no response is on its way out: the scripts beside the service take their
\* steps between the steps of the service
Quiet == resp.kind = "none"

\* the service is between two requests: the handlers are coroutines without
\* an await, so a request is handled only when the one before has ended
Idle == Quiet /\ loader.pc = 0

\* what a handler of the vercel variant answers from the cache load_models()
\* returned
vercel_answer(endpoint, cache, body) ==
    CASE endpoint = "/predict"       -> vercel_predict_loss(cache, body)
      [] endpoint = "/health"        -> vercel_health_check(cache)
      [] endpoint = "/models/status" -> vercel_models_status(cache)

\* a handler of the vercel variant calls load_models(): with a cache that
\* holds something it answers at once, with an empty cache it starts to read
\* the files and answers after the last one
VercelCall(endpoint, body) ==
    /\ IF vercel_model_paths(models) = << >>
       THEN /\ req' = Request(endpoint, body, << >>)
            /\ resp' = vercel_answer(endpoint, models, body)
            /\ UNCHANGED <<loader, loads>>
       ELSE /\ loader' = Loading(vercel_model_paths(models), endpoint, body)
            /\ loads' = Min(loads + 1, MaxLoads)
            /\ UNCHANGED <<req, resp>>
    /\ UNCHANGED models

\* startup_event: the one load_models call of the ModelManager variants
\* (which returns False at once when the directory does not exist), the first
\* load_models() of the vercel variant
Startup ==
    /\ Idle
    /\ ~started
    /\ started' = TRUE
    /\ IF variant \in ManagerVariants
       THEN /\ loads' = Min(loads + 1, MaxLoads)
            /\ loader' = IF disk.dir THEN Loading(ArtifactNames, "startup", << >>)
                          ELSE NotLoading
       ELSE /\ loads' = IF vercel_model_paths(models) = << >> THEN loads
                         ELSE Min(loads + 1, MaxLoads)
            /\ loader' = IF vercel_model_paths(models) = << >> THEN NotLoading
                          ELSE Loading(vercel_model_paths(models), "startup", << >>)
    /\ UNCHANGED <<answered, optimizer, fixer, variant, disk, models, is_loaded, req, resp>>

\* one round of the for loop of load_models: the file is read as it is on the
\* disk at this moment.  ModelManager stores the object and goes on, or
\* returns False at the first file that is missing or does not deserialise,
\* and sets is_loaded after the last file.  The vercel variant stores the
\* object or skips the file, and after the last file the handler that called
\* load_models answers from the cache.
LoadFile ==
    /\ Quiet
    /\ loader.pc \in 1..Len(loader.files)
    /\ LET name == loader.files[loader.pc]
           last == loader.pc = Len(loader.files)
           found == Loadable(disk, name)
           ms == IF found THEN Store(models, name, disk.files[name]) ELSE models
       IN  /\ models' = ms
           /\ IF variant \in ManagerVariants
              THEN /\ is_loaded' = (is_loaded \/ (found /\ last))
                   /\ loader' = IF found /\ ~last THEN [loader EXCEPT !.pc = @ + 1]
                                 ELSE NotLoading
                   /\ UNCHANGED <<req, resp>>
              ELSE /\ loader' = IF last THEN NotLoading ELSE [loader EXCEPT !.pc = @ + 1]
                   /\ IF last /\ loader.endpoint # "startup"
                      THEN /\ req' = Request(loader.endpoint, loader.body, << >>)
                           /\ resp' = vercel_answer(loader.endpoint, ms, loader.body)
                      ELSE UNCHANGED <<req, resp>>
                   /\ UNCHANGED is_loaded
    /\ UNCHANGED <<answered, optimizer, fixer, variant, disk, started, loads>>

\* POST /predict
Predict(body) ==
    /\ Idle
    /\ IF ~ValidInput(body)
       THEN /\ req' = Request("/predict", body, << >>)
            /\ resp' = Failure(422, << >>, "validation")
            /\ UNCHANGED <<loader, models, loads>>
       ELSE IF variant = "deployment"
       THEN /\ req' = Request("/predict", body, << >>)
            /\ resp' = predict_loss(models, is_loaded, body)
            /\ UNCHANGED <<loader, models, loads>>
       ELSE IF variant = "render"
       THEN /\ req' = Request("/predict", body, << >>)
            /\ resp' = enhance_prediction(models, is_loaded, body)
            /\ UNCHANGED <<loader, models, loads>>
       ELSE VercelCall("/predict", body)
    /\ UNCHANGED <<answered, optimizer, fixer, variant, disk, is_loaded, started>>

\* POST /predict/legacy (render)
PredictLegacy(body) ==
    /\ Idle
    /\ variant = "render"
    /\ req' = Request("/predict/legacy", body, << >>)
    /\ resp' = IF ~ValidInput(body) THEN Failure(422, << >>, "validation")
               ELSE predict_loss_legacy(models, is_loaded, body)
    /\ UNCHANGED <<answered, loader, optimizer, fixer, variant, disk, models, is_loaded, started, loads>>

\* POST /batch/predict (render)
BatchPredict(items) ==
    /\ Idle
    /\ variant = "render"
    /\ req' = Request("/batch/predict", << >>, items)
    /\ IF ~ValidBatch(items) THEN resp' = BatchRejected
       ELSE \E results \in {ItemResults(models, is_loaded, items)} :
                resp' = batch_predict(results)
    /\ UNCHANGED <<answered, loader, optimizer, fixer, variant, disk, models, is_loaded, started, loads>>

\* GET /health
Health ==
    /\ Idle
    /\ IF variant \in ManagerVariants
       THEN /\ req' = Request("/health", << >>, << >>)
            /\ resp' = health_check(is_loaded)
            /\ UNCHANGED <<loader, models, loads>>
       ELSE VercelCall("/health", << >>)
    /\ UNCHANGED <<answered, optimizer, fixer, variant, disk, is_loaded, started>>

\* GET /models/status
ModelsStatus ==
    /\ Idle
    /\ IF variant \in ManagerVariants
       THEN /\ req' = Request("/models/status", << >>, << >>)
            /\ resp' = models_status(models, is_loaded)
            /\ UNCHANGED <<loader, models, loads>>
       ELSE VercelCall("/models/status", << >>)
    /\ UNCHANGED <<answered, optimizer, fixer, variant, disk, is_loaded, started>>

\* optimize_models() run beside the service, a process of its own.  It reads
\* deployment/models and writes optimized_models, the directory the render
\* and vercel services load from; the deployment service reads
\* deployment/models and sees nothing of it.  The first step is
\* optimized_dir.mkdir(exist_ok=True).
OptimizeStart(source) ==
    /\ Quiet
    /\ variant \in OptimizedVariants
    /\ optimizer.pc = 0
    /\ optimizer.runs < MaxOptimizerRuns
    /\ optimizer' = [pc |-> 1, open |-> FALSE, runs |-> optimizer.runs + 1,
                     source |-> source]
    /\ disk' = [disk EXCEPT !.dir = TRUE]
    /\ UNCHANGED <<answered, loader, fixer, variant, models, is_loaded, started, loads, req, resp>>

\* a round of the loop over model_files, first half: a file not found in
\* deployment/models is skipped; for a file found, compress_model opens the
\* target for writing, which leaves it with 0 bytes
OpenArtifact ==
    /\ Quiet
    /\ optimizer.pc \in 1..Len(model_files)
    /\ ~optimizer.open
    /\ IF FileExists(optimizer.source, model_files[optimizer.pc])
       THEN /\ disk' = open_compressed(disk, model_files[optimizer.pc])
            /\ optimizer' = [optimizer EXCEPT !.open = TRUE]
       ELSE /\ optimizer' = NextRound(optimizer)
            /\ UNCHANGED disk
    /\ UNCHANGED <<answered, loader, fixer, variant, models, is_loaded, started, loads, req, resp>>

\* a round of the loop over model_files, second half: the bytes of the source
\* file are written to the target; the run ends here when the source file was
\* empty, and goes to the next file otherwise.  The service is not told.
WriteArtifacts ==
    /\ Quiet
    /\ optimizer.pc \in 1..Len(model_files)
    /\ optimizer.open
    /\ disk' = compress_model(optimizer.source, disk, model_files[optimizer.pc])
    /\ optimizer' = IF compression_ratio_raises(optimizer.source, model_files[optimizer.pc])
                    THEN [NotOptimizing EXCEPT !.runs = optimizer.runs]
                    ELSE NextRound(optimizer)
    /\ UNCHANGED <<answered, loader, fixer, variant, models, is_loaded, started, loads, req, resp>>

\* the response leaves the handler; the service is ready for the next request
Deliver ==
    /\ ~Quiet
    /\ req' = NoRequest
    /\ resp' = NoResponse
    /\ UNCHANGED <<answered, loader, optimizer, fixer, variant, disk, models, is_loaded, started, loads>>

\* main() of fix_critical_issue.py is started; it works on deployment/models,
\* the directory the deployment service loads from
FixStart ==
    /\ Quiet
    /\ variant = "deployment"
    /\ fixer = NotRunning
    /\ fixer' = [fixer EXCEPT !.pc = "backup"]
    /\ UNCHANGED <<answered, loader, optimizer, variant, disk, models, is_loaded, started, loads, req, resp>>

\* Step 1: fixer.backup_models()
BackupModels ==
    /\ Quiet
    /\ fixer.pc = "backup"
    /\ fixer' = [fixer EXCEPT
                    !.pc = "analyze",
                    !.backup = [name \in {a \in ArtifactSet : FileExists(disk, a)} |->
                                    disk.files[name]]]
    /\ UNCHANGED <<answered, loader, optimizer, variant, disk, models, is_loaded, started, loads, req, resp>>

\* Step 2: fixer.analyze_issue(); main returns when it reports consistency
AnalyzeIssue ==
    /\ Quiet
    /\ fixer.pc = "analyze"
    /\ \E has_attr \in BOOLEAN :
           LET consistent == analyze_issue(disk, has_attr)
           IN  fixer' = [fixer EXCEPT
                           !.consistent = consistent,
                           !.pc = IF consistent THEN "done" ELSE "fix",
                           !.outcome = IF consistent THEN "no_fix_needed" ELSE ""]
    /\ UNCHANGED <<answered, loader, optimizer, variant, disk, models, is_loaded, started, loads, req, resp>>

\* Step 3, first part: fix_pipeline loads the files and calls fix_selector,
\* both outside its try block: an exception ends the script
FixSelector ==
    /\ Quiet
    /\ fixer.pc = "fix"
    /\ IF ~AllLoadable(disk) \/ disk.files["poly_real"].n_in # Len(BASE_FEATURE_NAMES)
       THEN fixer' = [fixer EXCEPT !.pc = "done", !.outcome = "crashed"]
       ELSE fixer' = [fixer EXCEPT
                        !.pc = "test",
                        !.loaded = [name \in ArtifactSet |-> disk.files[name]],
                        !.selector = fix_selector(disk.files["poly_real"],
                                                  disk.files["selector_real"])]
    /\ UNCHANGED <<answered, loader, optimizer, variant, disk, models, is_loaded, started, loads, req, resp>>

\* Step 3, second part: the try block of fix_pipeline on the objects in
\* memory; save_fixed_models is called only when every stage ran
TestPipeline ==
    /\ Quiet
    /\ fixer.pc = "test"
    /\ fixer' = IF TestFixedPipeline(fixer.loaded["poly_real"], fixer.selector,
                                     fixer.loaded["scaler_real"],
                                     fixer.loaded["best_model_real"])
                THEN [fixer EXCEPT !.pc = "save"]
                ELSE [fixer EXCEPT !.pc = "done", !.outcome = "failed"]
    /\ UNCHANGED <<answered, loader, optimizer, variant, disk, models, is_loaded, started, loads, req, resp>>

\* save_fixed_models, a joblib.dump call opens its file for writing: the
\* file is left with 0 bytes
OpenFixed ==
    /\ Quiet
    /\ fixer.pc = "save"
    /\ ~fixer.open
    /\ disk' = [disk EXCEPT
                   !.files[save_order[Cardinality(fixer.written) + 1]] = Absent("empty")]
    /\ fixer' = [fixer EXCEPT !.open = TRUE]
    /\ UNCHANGED <<answered, loader, optimizer, variant, models, is_loaded, started, loads, req, resp>>

\* save_fixed_models, the joblib.dump call writes its object; after the
\* fourth file fix_pipeline returns True
DumpFixed ==
    /\ Quiet
    /\ fixer.pc = "save"
    /\ fixer.open
    /\ LET name == save_order[Cardinality(fixer.written) + 1]
           last == Cardinality(fixer.written) + 1 = Len(save_order)
       IN  /\ disk' = [disk EXCEPT !.files[name] = fixed_models(fixer)[name]]
           /\ fixer' = [fixer EXCEPT
                           !.written = @ \cup {name},
                           !.open = FALSE,
                           !.pc = IF last THEN "verify" ELSE "save",
                           !.outcome = IF last THEN "saved" ELSE ""]
    /\ UNCHANGED <<answered, loader, optimizer, variant, models, is_loaded, started, loads, req, resp>>

\* Step 4: fixer.test_fixed_pipeline() on the files as saved
VerifyFixed ==
    /\ Quiet
    /\ fixer.pc = "verify"
    /\ fixer' = [fixer EXCEPT
                    !.pc = "done",
                    !.outcome =
                        IF AllLoadable(disk)
                           /\ TestFixedPipeline(disk.files["poly_real"],
                                                disk.files["selector_real"],
                                                disk.files["scaler_real"],
                                                disk.files["best_model_real"])
                        THEN "verified" ELSE "unverified"]
    /\ UNCHANGED <<answered, loader, optimizer, variant, disk, models, is_loaded, started, loads, req, resp>>

Next ==
    \/ Startup
    \/ LoadFile
    \/ \E body \in Bodies : Predict(body)
    \/ \E body \in Bodies : PredictLegacy(body)
    \/ \E items \in Batches : BatchPredict(items)
    \/ Health
    \/ ModelsStatus
    \/ \E source \in SourceDisks : OptimizeStart(source)
    \/ OpenArtifact
    \/ WriteArtifacts
    \/ FixStart
    \/ BackupModels
    \/ AnalyzeIssue
    \/ FixSelector
    \/ TestPipeline
    \/ OpenFixed
    \/ DumpFixed
    \/ VerifyFixed
    \/ Deliver

Spec == Init /\ [][Next]_vars

(***************************************************************************)
(* ModelManager on its own: load_models(models_dir) called any number of   *)
(* times on any directory, get_model called in between.                    *)
(***************************************************************************)
ManagerInit ==
    /\ variant \in ManagerVariants
    /\ disk = NoDirDisk
    /\ models = EmptyModels
    /\ is_loaded = FALSE
    /\ started = FALSE
    /\ loads = 0
    /\ req = NoRequest
    /\ resp = NoResponse
    /\ fixer = NotRunning
    /\ optimizer = NotOptimizing
    /\ loader = NotLoading
    /\ answered = NoAnswers

\* model_manager.load_models(d)
ManagerLoad(d) ==
    /\ Idle
    /\ disk' = d
    /\ LET r == load_models(d, models, is_loaded)
       IN  /\ models' = r.models
           /\ is_loaded' = r.is_loaded
           /\ resp' = [kind |-> "load", status |-> 0, trace |-> << >>, ok |-> r.ok]
    /\ loads' = Min(loads + 1, MaxLoads)
    /\ req' = Request("load_models", << >>, << >>)
    /\ UNCHANGED <<answered, loader, optimizer, fixer, variant, started>>

\* model_manager.get_model(name)
GetModel(name) ==
    /\ Idle
    /\ req' = Request("get_model", << >>, << >>)
    /\ LET r == get_model(models, is_loaded, name)
       IN  resp' = [kind |-> "get_model", status |-> 0, trace |-> << >>,
                    name |-> name, raised |-> r.raised, found |-> r.found]
    /\ UNCHANGED <<answered, loader, optimizer, fixer, variant, disk, models, is_loaded, started, loads>>

ManagerNext ==
    \/ \E d \in Disks : ManagerLoad(d)
    \/ \E name \in ArtifactSet : GetModel(name)
    \/ Deliver

ManagerSpec == ManagerInit /\ [][ManagerNext]_vars

(***************************************************************************)
(* calculate_loss_breakdown on its own: any prediction, any valid          *)
(* operation between the extremes of the fields the function reads.        *)
(***************************************************************************)
\* predictions in thousandths: below, at, between and above the bounds 0.1
\* and 5.0, among them values halfway between two hundredths
BreakdownPredictions ==
    {-500, 70, 100, 110, 175, 325, 500, 1000, 2010, 2675, 3330, 4990, 5000, 7000}

\* the double nearest to x / 1000
Thousandths(x) == FDiv(FInt(x), FInt(1000))

\* the predictions passed as Python floats; the others are numpy.float64, as
\* enhance_prediction passes what it derived from the regressor's output
BreakdownFloatPredictions == {70, 175, 325, 2675, 7000}

BreakdownArguments ==
    { <<x, TRUE>> : x \in BreakdownPredictions } \cup
    { <<x, FALSE>> : x \in BreakdownFloatPredictions }

\* the argument of calculate_loss_breakdown: x / 1000 as an object of the type
Prediction(x, np) == AsType(Thousandths(x), np)

BreakdownFfaValues == {3, 120, 5000}

BreakdownPressureValues == {0, 230, 10000}

BreakdownMoistureValues == {3, 20, 1000}

BreakdownFeedValues == {0, 10050, 200000}

\* operations that passed the validation of RefineryOperationInput
BreakdownBodies ==
    { [BaseBody EXCEPT !["feed_ffa"] = ffa, !["vapour_pressure"] = vp,
                       !["moisture"] = mo, !["actual_feed_mt"] = fd] :
        <<ffa, vp, mo, fd>> \in BreakdownFfaValues \X BreakdownPressureValues
                                \X BreakdownMoistureValues \X BreakdownFeedValues }

BreakdownInit ==
    /\ variant = "render"
    /\ disk = NoDirDisk
    /\ models = EmptyModels
    /\ is_loaded = FALSE
    /\ started = FALSE
    /\ loads = 0
    /\ req = NoRequest
    /\ resp = NoResponse
    /\ fixer = NotRunning
    /\ optimizer = NotOptimizing
    /\ loader = NotLoading
    /\ answered = NoAnswers

\* calculate_loss_breakdown(prediction, operation)
LossBreakdown(prediction, np, body) ==
    /\ Idle
    /\ req' = Request("calculate_loss_breakdown", body, << >>)
    /\ resp' = [kind |-> "breakdown", status |-> 0, trace |-> << >>,
                prediction |-> prediction, numpy |-> np,
                loss_breakdown |->
                    calculate_loss_breakdown(Prediction(prediction, np), body)]
    /\ UNCHANGED <<answered, loader, optimizer, fixer, variant, disk, models, is_loaded, started, loads>>

BreakdownNext ==
    \/ \E argument \in BreakdownArguments, body \in BreakdownBodies :
           LossBreakdown(argument[1], argument[2], body)
    \/ Deliver

BreakdownSpec == BreakdownInit /\ [][BreakdownNext]_vars

(***************************************************************************)
(* ImprovedModelEvaluator.evaluate_preprocessing_components: the report on *)
(* a PolynomialFeatures expander of any input width and degree.            *)
(***************************************************************************)
MaxFeaturesIn == 20

MaxDegree == 5

RECURSIVE SumComb(_, _)
\* sum(comb(n_in + i, i) for i in range(degree + 1))
SumComb(n_in, degree) ==
    IF degree < 0 THEN 0
    ELSE SumComb(n_in, degree - 1) + Choose(n_in + degree, degree)

\* the "Expected output" the evaluator prints for the expander
ExpectedPolyOutput(n_in, degree) == SumComb(n_in, degree)

EvaluatorInit ==
    /\ variant = "deployment"
    /\ disk = NoDirDisk
    /\ models = EmptyModels
    /\ is_loaded = FALSE
    /\ started = FALSE
    /\ loads = 0
    /\ req = NoRequest
    /\ resp = NoResponse
    /\ fixer = NotRunning
    /\ optimizer = NotOptimizing
    /\ loader = NotLoading
    /\ answered = NoAnswers

\* the PolynomialFeatures branch of evaluate_preprocessing_components
EvaluatePoly(n_in, degree) ==
    /\ Idle
    /\ req' = Request("evaluate_preprocessing_components", << >>, << >>)
    /\ resp' = [kind |-> "poly_report", status |-> 0, trace |-> << >>,
                n_in |-> n_in, degree |-> degree,
                n_out |-> ExpectedPolyOutput(n_in, degree)]
    /\ UNCHANGED <<answered, loader, optimizer, fixer, variant, disk, models, is_loaded, started, loads>>

EvaluatorNext ==
    \/ \E n_in \in 1..MaxFeaturesIn, degree \in 0..MaxDegree : EvaluatePoly(n_in, degree)
    \/ Deliver

EvaluatorSpec == EvaluatorInit /\ [][EvaluatorNext]_vars

(***************************************************************************)
(* main() of fix_critical_issue.py on its own, on any models directory.    *)
(***************************************************************************)
FixInit ==
    /\ variant = "deployment"
    /\ disk \in Disks
    /\ models = EmptyModels
    /\ is_loaded = FALSE
    /\ started = FALSE
    /\ loads = 0
    /\ req = NoRequest
    /\ resp = NoResponse
    /\ fixer = NotRunning
    /\ optimizer = NotOptimizing
    /\ loader = NotLoading
    /\ answered = NoAnswers

FixNext ==
    \/ FixStart
    \/ BackupModels
    \/ AnalyzeIssue
    \/ FixSelector
    \/ TestPipeline
    \/ OpenFixed
    \/ DumpFixed
    \/ VerifyFixed

FixSpec == FixInit /\ [][FixNext]_vars

(***************************************************************************)
(* The render service with its analysis endpoints.                         *)
(***************************************************************************)
\* test_data of the repository's tests
AnalysisBase == BaseBody

\* feed_ffa, moisture and bleaching_earth_quantity of the enumerated records:
\* no suggestion applies, one does, all three do
AnalysisProfiles ==
    {<<120, 20, 1500>>, <<310, 20, 1500>>, <<120, 50, 1500>>, <<310, 50, 12000>>}

AnalysisValidBodies ==
    { [AnalysisBase EXCEPT !["actual_feed_mt"] = fd, !["feed_ffa"] = p[1],
                           !["moisture"] = p[2], !["bleaching_earth_quantity"] = p[3]] :
        <<fd, p>> \in {0, 10050} \X AnalysisProfiles }
    \cup {With(AnalysisBase, "convert_to_percentage", FALSE)}

AnalysisBodies ==
    AnalysisValidBodies \cup {With(AnalysisBase, "feed_ffa", -1), Without(AnalysisBase, "moisture")}

AnalysisBatches == {<< >>, <<AnalysisBase>>, <<AnalysisBase, AnalysisBase>>}

\* target_loss_percentage: absent, within range, above le=100
Targets == {<< >>, <<150>>, <<10001>>}

Priorities == PRIORITIES \cup {"speed"}

StandardKeys == DOMAIN default_standards

\* quality_standards: none, one key (a default key or a foreign one) set to 0
\* or to 90, or all four keys set
QualityStandards ==
    {[k \in {} |-> 0]} \cup
    {[k \in {key} |-> v] : key \in StandardKeys \cup {"colour"}, v \in {0, 9000}} \cup
    {[k \in StandardKeys |-> 9000]}

\* complete directories of every combination of widths, regressors below and
\* above the bounds and one that grows with the feed, and no directory
AnalysisDisks ==
    {d \in CompleteDisks :
        <<d.files["best_model_real"].intercept, d.files["best_model_real"].slope>>
            \in {<<201, 0>>, <<-300, 0>>, <<700, 0>>, <<201, 3>>}}
    \cup {NoDirDisk}

AnalysisInit ==
    /\ variant = "render"
    /\ disk \in AnalysisDisks
    /\ models = EmptyModels
    /\ is_loaded = FALSE
    /\ started = FALSE
    /\ loads = 0
    /\ req = NoRequest
    /\ resp = NoResponse
    /\ fixer = NotRunning
    /\ optimizer = NotOptimizing
    /\ loader = NotLoading
    /\ answered = NoAnswers

\* POST /analysis/yield
AnalyzeYield(body) ==
    /\ Idle
    /\ req' = Request("/analysis/yield", body, << >>)
    /\ resp' = IF ~ValidInput(body) THEN Failure(422, << >>, "validation")
               ELSE analyze_yield(models, is_loaded, body)
    /\ UNCHANGED <<answered, loader, optimizer, fixer, variant, disk, models, is_loaded, started, loads>>

\* POST /analysis/loss-breakdown
AnalyzeLossBreakdown(body) ==
    /\ Idle
    /\ req' = Request("/analysis/loss-breakdown", body, << >>)
    /\ resp' = IF ~ValidInput(body) THEN Failure(422, << >>, "validation")
               ELSE analyze_loss_breakdown(models, is_loaded, body)
    /\ UNCHANGED <<answered, loader, optimizer, fixer, variant, disk, models, is_loaded, started, loads>>

\* POST /analysis/process-efficiency
AnalyzeProcessEfficiency(body) ==
    /\ Idle
    /\ req' = Request("/analysis/process-efficiency", body, << >>)
    /\ resp' = IF ~ValidInput(body) THEN Failure(422, << >>, "validation")
               ELSE analyze_process_efficiency(models, is_loaded, body)
    /\ UNCHANGED <<answered, loader, optimizer, fixer, variant, disk, models, is_loaded, started, loads>>

\* POST /optimize/parameters
OptimizeParameters(body, target, priority) ==
    /\ Idle
    /\ req' = [endpoint |-> "/optimize/parameters", body |-> body, items |-> << >>,
               target_loss_percentage |-> target, optimization_priority |-> priority]
    /\ resp' = IF ~ValidOptimization(body, target, priority)
               THEN Failure(422, << >>, "validation")
               ELSE optimize_parameters(models, is_loaded, body, target, priority)
    /\ UNCHANGED <<answered, loader, optimizer, fixer, variant, disk, models, is_loaded, started, loads>>

\* POST /analysis/quality
AnalyzeQuality(body, quality_standards) ==
    /\ Idle
    /\ req' = [endpoint |-> "/analysis/quality", body |-> body, items |-> << >>,
               quality_standards |-> quality_standards]
    /\ \E r \in {IF ~ValidInput(body) THEN Failure(422, << >>, "validation")
                ELSE analyze_quality(models, is_loaded, body, quality_standards)} :
           resp' = r
    /\ UNCHANGED <<answered, loader, optimizer, fixer, variant, disk, models, is_loaded, started, loads>>

AnalysisNext ==
    \/ Startup
    \/ LoadFile
    \/ \E body \in AnalysisBodies : Predict(body)
    \/ \E items \in AnalysisBatches : BatchPredict(items)
    \/ \E body \in AnalysisBodies : AnalyzeYield(body)
    \/ \E body \in AnalysisBodies : AnalyzeLossBreakdown(body)
    \/ \E body \in AnalysisBodies : AnalyzeProcessEfficiency(body)
    \/ \E body \in AnalysisBodies, target \in Targets, priority \in Priorities :
           OptimizeParameters(body, target, priority)
    \/ \E body \in AnalysisBodies, quality_standards \in QualityStandards :
           AnalyzeQuality(body, quality_standards)
    \/ Deliver

AnalysisSpec == AnalysisInit /\ [][AnalysisNext]_vars

(***************************************************************************)
(* Properties.                                                             *)
(***************************************************************************)
(***************************************************************************)
(* A caller that keeps what it was answered: the service on a directory    *)
(* that nobody writes, and beside it one response to a prediction request  *)
(* that the caller chose to keep.  startup_event runs before the server    *)
(* accepts requests, or not at all under a test client without lifespan,   *)
(* so an answer is kept together with the side of startup_event it is from.*)
(***************************************************************************)
\* the records the caller sends: the one of the tests, the same without feed,
\* one that fails validation, one with convert_to_percentage = false
RepeatBodies ==
    { BaseBody,
      [BaseBody EXCEPT !["actual_feed_mt"] = 0],
      [BaseBody EXCEPT !["percentage_yield"] = 15000],
      With(BaseBody, "convert_to_percentage", FALSE) }

\* the directories: fitting files, the selector one column wider than the
\* scaler, a regressor that returns Python floats, a file missing, a file
\* that does not load, nothing at all
RepeatDisks ==
    { WrittenDisk,
      CompleteDisk(Len(BASE_FEATURE_NAMES), Len(BASE_FEATURE_NAMES),
                   Len(BASE_FEATURE_NAMES) + 1, 201, 0),
      WithFloatOutput(CompleteDisk(Len(BASE_FEATURE_NAMES), Len(BASE_FEATURE_NAMES),
                                   Len(BASE_FEATURE_NAMES), 13, 0)),
      [WrittenDisk EXCEPT !.files["selector_real"] = Absent("missing")],
      [WrittenDisk EXCEPT !.files["best_model_real"] = Absent("corrupt")],
      NoDirDisk }

\* what identifies a request to the caller
AnswerKey(r, s) == <<r.endpoint, r.body, s>>

RepeatInit ==
    /\ variant \in Variants
    /\ disk \in RepeatDisks
    /\ models = EmptyModels
    /\ is_loaded = FALSE
    /\ started = FALSE
    /\ loads = 0
    /\ req = NoRequest
    /\ resp = NoResponse
    /\ fixer = NotRunning
    /\ optimizer = NotOptimizing
    /\ loader = NotLoading
    /\ answered = NoAnswers

\* the response reaches the caller, who keeps the answer to a prediction
\* request in place of the one kept so far, or lets it pass
Receive ==
    /\ ~Quiet
    /\ \/ /\ req.endpoint \in {"/predict", "/predict/legacy"}
          /\ answered' = [k \in {AnswerKey(req, started)} |-> resp]
       \/ answered' = answered
    /\ req' = NoRequest
    /\ resp' = NoResponse
    /\ UNCHANGED <<loader, optimizer, fixer, variant, disk, models, is_loaded, started, loads>>

RepeatNext ==
    \/ Startup
    \/ LoadFile
    \/ \E body \in RepeatBodies : Predict(body)
    \/ \E body \in RepeatBodies : PredictLegacy(body)
    \/ \E items \in SeqsUpTo({BaseBody}, 1) : BatchPredict(items)
    \/ Health
    \/ ModelsStatus
    \/ Receive

RepeatSpec == RepeatInit /\ [][RepeatNext]_vars

PredictEndpoints == {"/predict", "/predict/legacy"}

PipelineStages == {StageOrder[i] : i \in 1..Len(StageOrder)}

\* the pipeline stages a trace holds
StagesIn(tr) == {i \in 1..Len(tr) : tr[i] \in PipelineStages}

\* the loss predictions a response hands to the caller
SurfacedLosses(r) ==
    CASE r.kind = "prediction" -> {r.prediction}
      [] r.kind = "enhanced"   -> {H(r.loss_percentage)}
      [] r.kind = "vercel"     -> {H(r.loss_percentage)}
      [] r.kind = "batch"      ->
            {H(r.predictions[i].loss_percentage) : i \in 1..Len(r.predictions)}
      [] OTHER                 -> {}

\* C1: every loss prediction handed to a caller by a prediction endpoint of
\* any variant lies in [0.1, 5.0], whatever the raw model output.
C1_PredictionsBounded ==
    \A x \in SurfacedLosses(resp) : FLe(H(10), x) /\ FLe(x, FInt(5))

\* C2: in the variants that normalise by feed mass, a valid record with
\* actual_feed_mt = 0 whose pipeline ran gets the fixed fallback 1.0 as its
\* loss percentage, whatever the raw model output.
C2_ZeroFeedFallback ==
    ( /\ req.endpoint = "/predict"
      /\ variant \in {"render", "vercel"}
      /\ ValidInput(req.body)
      /\ ConvertToPercentage(req.body)
      /\ req.body["actual_feed_mt"] = 0
      /\ StagesIn(resp.trace) # {} /\ resp.trace[Len(resp.trace)] = "predict" )
    => (resp.status = 200 /\ resp.loss_percentage = 100)

\* C3: the five category values of a returned LossBreakdown sum to its
\* total_loss_percentage (values of two decimals: equal within 1e-6 means equal).
C3_BreakdownSumsToTotal ==
    resp.kind = "enhanced" =>
        LET b == resp.loss_breakdown
        IN  b.raw_material_loss + b.energy_loss + b.process_loss + b.waste_loss
                + b.efficiency_loss = b.total_loss_percentage

\* the items of a batch that are valid and predictable on their own
C4_GoodItems(items) ==
    {i \in 1..Len(items) :
        ValidInput(items[i]) /\ enhance_prediction(models, is_loaded, items[i]).kind = "enhanced"}

\* C4: in a batch of accepted size, the failure of one item does not abort its
\* siblings: the response is a batch result holding one result per good item.
C4_BatchIsolatesFailures ==
    ( /\ req.endpoint = "/batch/predict"
      /\ Len(req.items) <= MAX_ITEMS
      /\ C4_GoodItems(req.items) # {} )
    => ( /\ resp.kind = "batch"
         /\ resp.total_predictions = Cardinality(C4_GoodItems(req.items)) )

\* C5: a batch of more than 100 items is rejected before the pipeline runs for
\* any item; a batch of at most 100 valid items is accepted, and the handler
\* reaches its items.
C5_BatchSizeLimit ==
    req.endpoint = "/batch/predict" =>
        /\ Len(req.items) > 100 => (resp.status = 422 /\ resp.item_traces = << >>)
        /\ ( /\ Len(req.items) <= 100
             /\ \A i \in 1..Len(req.items) : ValidInput(req.items[i]) )
           => (resp.status # 422 /\ (Len(req.items) > 0 => Len(resp.item_traces) > 0))

C5_Witness ==
    /\ req.endpoint = "/batch/predict"
    /\ Len(req.items) = 101
    /\ is_loaded
    /\ resp.status = 422

\* C6: the service reports itself ready only when all four artifacts are loaded
\* and their widths agree (selector output = scaler input, scaler output =
\* model input).
C6_ReadyOnlyIfCompatible ==
    (variant \in ManagerVariants /\ is_ready(is_loaded)) =>
        /\ AllPresent(models)
        /\ models["selector_real"].n_out = models["scaler_real"].n_in
        /\ models["scaler_real"].n_out = models["best_model_real"].n_in

\* C7: when fewer than four artifacts could be loaded, no variant serves a
\* prediction: a valid prediction request is answered "not ready" (503).
C7_PartialLoadNotServed ==
    ( /\ req.endpoint \in PredictEndpoints
      /\ ValidInput(req.body)
      /\ ~AllPresent(models) )
    => (resp.kind = "error" /\ resp.status = 503)

\* C8: while the models are not loaded, POST /predict with a valid body is
\* answered 503 and no pipeline stage runs (ModelManager variants).
C8_NotLoaded503 ==
    ( /\ variant \in ManagerVariants
      /\ req.endpoint = "/predict"
      /\ ValidInput(req.body)
      /\ ~is_loaded )
    => (resp.status = 503 /\ StagesIn(resp.trace) = {})

C8_Witness ==
    /\ variant = "deployment"
    /\ req.endpoint = "/predict"
    /\ req.body = BaseBody
    /\ ~is_loaded
    /\ resp.status = 503

\* C9: GET /models/status answers 200 with models_loaded and models in every
\* state of the model manager.
C9_StatusAlwaysAnswers ==
    req.endpoint = "/models/status" => (resp.status = 200 /\ resp.kind = "models_status")

\* the ranges as the claim states them, in hundredths
C10_Limit(f) ==
    CASE f = "percentage_yield" -> 10000
      [] f = "gravity"          -> 200
      [] f = "feed_ffa"         -> 5000
      [] f = "moisture"         -> 1000

C10_Limited == {"percentage_yield", "gravity", "feed_ffa", "moisture"}

\* a required field is missing or outside its range
C10_Violates(body) ==
    \E f \in FeatureNames :
        \/ f \notin DOMAIN body
        \/ body[f] < 0
        \/ (f \in C10_Limited /\ body[f] > C10_Limit(f))

\* C10: a prediction request with a required field missing or out of range is
\* rejected with 422 before the readiness check and before any pipeline stage,
\* whether or not the models are loaded: the handler does nothing.
C10_InvalidRejectedFirst ==
    [][ ( /\ req' # req
          /\ req'.endpoint \in PredictEndpoints
          /\ C10_Violates(req'.body) )
        => ( /\ resp'.status = 422
             /\ resp'.trace = << >>
             /\ UNCHANGED <<models, is_loaded, loads, loader>> ) ]_vars

C10_Witness ==
    /\ req.endpoint = "/predict"
    /\ C10_Violates(req.body)
    /\ is_loaded
    /\ resp.status = 422

\* every stage is handed the width it was fitted with
C11_WidthsAgree(ms) ==
    /\ ms["poly_real"].n_in = Len(BASE_FEATURE_NAMES)
    /\ ms["selector_real"].n_in = ms["poly_real"].n_out
    /\ ms["scaler_real"].n_in = ms["selector_real"].n_out
    /\ ms["best_model_real"].n_in = ms["scaler_real"].n_out

\* the first stage that is handed a width other than the one it expects
C11_Offending(ms) ==
    IF ms["poly_real"].n_in # Len(BASE_FEATURE_NAMES) THEN "expand"
    ELSE IF ms["selector_real"].n_in # ms["poly_real"].n_out THEN "select"
    ELSE IF ms["scaler_real"].n_in # ms["selector_real"].n_out THEN "scale"
    ELSE "predict"

\* the names of the stages a trace holds
C11_StageNames(tr) == {tr[i] : i \in StagesIn(tr)}

\* the call of the handler that is handed the wrong width first
C11_OffendingCall(ms) ==
    CASE C11_Offending(ms) = "expand"  -> "poly.transform"
      [] C11_Offending(ms) = "select"  -> "selector.transform"
      [] C11_Offending(ms) = "scale"   -> "scaler.transform"
      [] C11_Offending(ms) = "predict" -> "best_model.predict"

\* the failure of a width check of the service's own: its kind, the stage it
\* names, and the expected and the observed width
C11_WidthMismatch(stage, expected, actual) ==
    [type |-> "WidthMismatch", raised_in |-> stage, n_features |-> actual,
     n_features_in_ |-> expected]

\* C11: in the ModelManager services, for a valid record and four loaded
\* artifacts, either all widths agree and the pipeline runs to the model, or
\* the model stage is not reached and the call fails with a WidthMismatch
\* failure that names the stage that was handed the wrong width.
C11_WidthMismatchReported ==
    ( /\ variant \in ManagerVariants
      /\ req.endpoint \in PredictEndpoints
      /\ ValidInput(req.body)
      /\ is_loaded
      /\ AllPresent(models) )
    => IF C11_WidthsAgree(models)
       THEN C11_StageNames(resp.trace) = PipelineStages
       ELSE /\ resp.kind = "error"
            /\ "predict" \notin C11_StageNames(resp.trace)
            /\ \E stage \in {C11_Offending(models), C11_OffendingCall(models)} :
                   resp.exception = C11_WidthMismatch(stage, resp.exception.n_features_in_,
                                                      resp.exception.n_features)

\* the pipeline stages of a trace, in the order they ran
C12_StageSeq(tr) == SelectSeq(tr, LAMBDA x : x \in PipelineStages)

C12_IsPrefix(p, q) == Len(p) <= Len(q) /\ p = SubSeq(q, 1, Len(p))

\* C12: the stages a request ran are an initial part of expand, select, scale,
\* predict, each at most once; a returned model-based prediction (any 200 of
\* the ModelManager services, a 200 of the vercel variant whose pipeline ran
\* through, every item of a batch result) ran exactly these four in this order.
C12_StagesInOrder ==
    /\ req.endpoint \in PredictEndpoints =>
          /\ C12_IsPrefix(C12_StageSeq(resp.trace), StageOrder)
          /\ ( /\ resp.status = 200
               /\ \/ variant \in ManagerVariants
                  \/ AllPresent(models) /\ C11_WidthsAgree(models) )
             => C12_StageSeq(resp.trace) = StageOrder
    /\ req.endpoint = "/batch/predict" =>
          /\ \A i \in 1..Len(resp.item_traces) :
                 C12_IsPrefix(C12_StageSeq(resp.item_traces[i]), StageOrder)
          /\ resp.kind = "batch" =>
                 \A i \in 1..Len(resp.item_traces) :
                     C12_StageSeq(resp.item_traces[i]) = StageOrder

C12_Witness ==
    /\ variant = "vercel"
    /\ req.endpoint = "/predict"
    /\ resp.status = 200
    /\ C12_StageSeq(resp.trace) = StageOrder

\* how many of the five plausibility conditions a record and its loss satisfy
C13_Satisfied(loss, body) ==
    Cardinality({ c \in 1..5 :
        \/ c = 1 /\ Abs(loss - 200) < 100
        \/ c = 2 /\ body["feed_ffa"] < 300
        \/ c = 3 /\ body["moisture"] < 30
        \/ c = 4 /\ body["percentage_yield"] > 8000
        \/ c = 5 /\ body["actual_feed_mt"] > 5000 })

C13_Bucket(n) == IF n >= 4 THEN "high" ELSE IF n = 3 THEN "medium" ELSE "low"

\* C13: the confidence of a returned prediction is the bucket of the number of
\* satisfied plausibility conditions: high for 4 or 5, medium for 3, low below.
C13_ConfidenceByFiveChecks ==
    (req.endpoint = "/predict" /\ resp.kind \in {"enhanced", "vercel"}) =>
        resp.confidence_level = C13_Bucket(C13_Satisfied(resp.loss_percentage, req.body))

\* C14: on unchanged artifacts, a prediction request whose answer the caller
\* kept gets the identical response when it is sent again, in every field but
\* timing, timestamp and request id (loss, yield, confidence, breakdown, yield
\* analysis, process metrics), whatever requests the service has handled in
\* between: no request leaves state behind that changes a later answer.
C14_RepeatGivesSameResult ==
    ( /\ req.endpoint \in PredictEndpoints
      /\ ~Quiet
      /\ AnswerKey(req, started) \in DOMAIN answered )
    => resp = answered[AnswerKey(req, started)]

C14_Witness ==
    /\ variant = "render"
    /\ req.endpoint = "/predict"
    /\ AnswerKey(req, started) \in DOMAIN answered
    /\ is_loaded
    /\ resp.kind = "enhanced"
    /\ resp = answered[AnswerKey(req, started)]
    /\ resp.yield_analysis.overall_yield_percentage = 10000 - resp.loss_percentage

\* C15: when a pipeline stage raises during a prediction request, the caller
\* gets a failure response, never a successful prediction, and the failure
\* names the stage that raised.
C15_StageFailureReported ==
    ( /\ req.endpoint \in PredictEndpoints
      /\ ValidInput(req.body)
      /\ AllPresent(models)
      /\ variant \in ManagerVariants => is_loaded
      /\ ~C11_WidthsAgree(models) )
    => ( /\ resp.kind = "error"
         /\ resp.status # 200
         /\ resp.exception.raised_in = C11_OffendingCall(models) )

\* C16: once a load attempt has ended with fewer than four artifacts in
\* memory, no later step attempts another load, and the loaded artifacts and
\* the loaded flag stay as they are.
C16_NoRetryAfterFailedLoad ==
    [][ (loads >= 1 /\ loader = NotLoading /\ ~AllPresent(models)) =>
            /\ loads' = loads
            /\ loader' = NotLoading
            /\ models' = models
            /\ is_loaded' = is_loaded ]_vars

\* C17: in the lazily loading variant the artifacts are read from disk at most
\* once, however many requests find the cache empty.
C17_SingleFlight == variant = "vercel" => loads <= 1

\* a step of a request handler: the handler answers, or the load_models call
\* of a handler reads a file
C18_HandlerStep ==
    \/ req' # req /\ req'.endpoint # ""
    \/ loader.endpoint \notin {"", "startup"} /\ loader' # loader

\* C18: after startup, handling a request (predict, batch, health, status)
\* leaves the loaded-model mapping and the loaded flag as they were.
C18_HandlersLeaveStoreAlone ==
    [][ (started /\ C18_HandlerStep) =>
            (models' = models /\ is_loaded' = is_loaded) ]_vars

\* C19: GET /health answers 200 in every state, and with status "degraded"
\* whenever fewer than four artifacts are loaded.
C19_HealthDetectsNotReady ==
    req.endpoint = "/health" =>
        /\ resp.status = 200
        /\ resp.kind \in {"health", "vercel_health"}
        /\ ~AllPresent(models) => resp.health = "degraded"

\* a directory from which load_models cannot read all four files
C20_Unloadable(d) == ~d.dir \/ \E a \in ArtifactSet : d.files[a].status # "ok"

\* C20: after any sequence of load_models calls, is_ready() implies that all
\* four artifacts are in the manager; get_model raises while the flag is
\* false; a load from a directory with a missing or unreadable file returns
\* False and leaves the flag as it was.
C20_LoadedFlagSound ==
    /\ [](is_ready(is_loaded) => AllPresent(models))
    /\ []((req.endpoint = "get_model" /\ ~is_loaded) => (resp.raised /\ ~resp.found))
    /\ [][ (req' # req /\ req'.endpoint = "load_models" /\ C20_Unloadable(disk')) =>
               (~resp'.ok /\ is_loaded' = is_loaded) ]_vars

C20_Witness ==
    /\ req.endpoint = "get_model"
    /\ ~is_loaded
    /\ loads >= 1
    /\ resp.name \in DOMAIN models
    /\ resp.raised

\* C21: in the render variant a valid record with convert_to_percentage =
\* false whose pipeline ran is answered with the prediction in metric tons:
\* the raw output bounded to [0.01, 0.05 * actual_feed_mt] for a positive
\* feed mass, 0.1 for a feed mass of zero.
C21_MetricTonsWhenNotConverted ==
    ( /\ req.endpoint = "/predict"
      /\ variant = "render"
      /\ ValidInput(req.body)
      /\ ~ConvertToPercentage(req.body)
      /\ StagesIn(resp.trace) # {} /\ resp.trace[Len(resp.trace)] = "predict" )
    => /\ resp.status = 200
       /\ LET feed_amount == H(req.body["actual_feed_mt"])
              raw == RunPipeline(models, req.body).raw
          IN  resp.loss_percentage =
                  IF req.body["actual_feed_mt"] > 0
                  THEN Round2(Clamp(H(1), raw, FMul(feed_amount, H(5))))
                  ELSE 10

\* the category values of a returned LossBreakdown
C22_Values(b) ==
    {b.raw_material_loss, b.energy_loss, b.process_loss, b.waste_loss, b.efficiency_loss}

\* C22: in every LossBreakdown that calculate_loss_breakdown returns, no
\* category exceeds min(0.6 * total_loss, 3.0), neither as returned nor as
\* the renormalisation step leaves it.
C22_NoCategoryAboveCap ==
    resp.kind = "breakdown" =>
        LET b == resp.loss_breakdown
            total == H(b.total_loss_percentage)
            cap == FMin(FMul(total, H(60)), FInt(3))
            after == UnroundedBreakdown(Prediction(resp.prediction, resp.numpy), req.body)
        IN  /\ \A v \in C22_Values(b) : FLe(H(v), cap)
            /\ \A c \in Categories : FLe(after[c], cap)

C22_Witness ==
    /\ resp.kind = "breakdown"
    /\ resp.loss_breakdown.total_loss_percentage = 500
    /\ resp.loss_breakdown.raw_material_loss > 220

RECURSIVE C23_MultisetSum(_, _)
\* the sum over i = 0..d of C(n+i-1, i)
C23_MultisetSum(n, d) ==
    IF d < 0 THEN 0 ELSE C23_MultisetSum(n, d - 1) + Choose(n + d - 1, d)

\* C23: the expected polynomial output width the evaluator computes for n
\* input features and degree d is the expander's true output width, the sum
\* over i = 0..d of C(n+i-1, i), which is C(n+d, d).
C23_ExpectedWidthIsTrueWidth ==
    resp.kind = "poly_report" =>
        /\ resp.n_out = C23_MultisetSum(resp.n_in, resp.degree)
        /\ resp.n_out = PolyTransformWidth(resp.n_in, resp.degree)

\* C24: the fix script writes to model files only after backup_models has
\* copied every existing file, only when analyze_issue did not report the
\* pipeline consistent, and only when the fixed pipeline ran end to end: what
\* it writes is a pipeline that runs, the files other than the selector get
\* back what they held, and after the last write the directory holds that
\* pipeline; no other step of any run touches a file.
C24_WritesOnlyAfterBackupAndTest ==
    [][ (disk' # disk \/ fixer'.written # fixer.written) =>
            /\ fixer.pc = "save"
            /\ DOMAIN fixer.backup = ArtifactSet
            /\ \A name \in ArtifactSet \ fixer'.written :
                   disk.files[name] \in {fixer.backup[name], Absent("empty")}
            /\ ~fixer.consistent
            /\ RunPipeline(fixed_models(fixer), BaseBody).ok
            /\ \A name \in ArtifactSet :
                   disk'.files[name] \in
                       {disk.files[name], Absent("empty"), fixed_models(fixer)[name]}
            /\ \A name \in ArtifactSet \ {"selector_real"} :
                   fixed_models(fixer)[name] = fixer.backup[name]
            /\ fixer'.written = ArtifactSet =>
                   (AllLoadable(disk') /\ disk'.files = fixed_models(fixer)) ]_vars

C24_Witness ==
    /\ fixer.outcome = "saved"
    /\ fixer.written = ArtifactSet
    /\ "selector_real" \in DOMAIN fixer.backup
    /\ fixer.backup["selector_real"] # disk.files["selector_real"]

\* C25: the selector fix_selector returns has the output width the loaded
\* scaler expects (scaler.n_features_in_), whatever the scaler, and is the
\* original selector when its k already equals that width.
C25_FixedSelectorMatchesScaler ==
    fixer.pc = "test" =>
        LET scaler == disk.files["scaler_real"]
            selector == disk.files["selector_real"]
        IN  /\ fixer.selector.n_out = scaler.n_in
            /\ (selector.n_out = scaler.n_in => fixer.selector = selector)

\* the endpoints of render that call enhance_prediction inside their own
\* try block
C26_Wrapped ==
    {"/batch/predict", "/analysis/yield", "/analysis/loss-breakdown",
     "/analysis/process-efficiency", "/optimize/parameters", "/analysis/quality"}

\* the handler called enhance_prediction at least once
C26_Reached ==
    /\ resp.status # 422
    /\ req.endpoint = "/batch/predict" => Len(req.items) > 0

\* C26: in render the endpoints built on enhance_prediction answer 200 or
\* 500 and nothing else: while the models are not loaded they answer 500,
\* where /predict answers 503.
C26_WrappedFailuresAre500 ==
    /\ (req.endpoint \in C26_Wrapped /\ resp.status # 422) => resp.status \in {200, 500}
    /\ (req.endpoint \in C26_Wrapped /\ C26_Reached /\ ~is_loaded) => resp.status = 500
    /\ (req.endpoint = "/predict" /\ C26_Reached /\ ~is_loaded) => resp.status = 503

C26_Witness ==
    /\ req.endpoint = "/analysis/loss-breakdown"
    /\ ~is_loaded
    /\ resp.status = 500
    /\ resp.trace = <<"ready_check">>

\* 1e-9: far below what two decimals show and far above what the roundings
\* of five doubles of at most 5.0 add up to
C27_Tolerance == FDiv(FInt(1), FInt(1000000000))

\* C27: for every valid operation and every total loss in [0.1, 5.0] each
\* category value before capping, total * w_i*m_i / sum w_j*m_j, is strictly
\* below min(0.6 * total, 3.0): capping changes no value, the sum of the
\* capped values is the total (scale factor 1), and the returned breakdown
\* is the rounded modifier-weighted split.
C27_CapNeverBinds ==
    resp.kind = "breakdown" =>
        LET total == Clamp(H(10), Prediction(resp.prediction, resp.numpy), FInt(5))
            before == WeightedComponents(total, req.body)
            cap == FMin(FMul(total, H(60)), FInt(3))
            capped == CapComponents(before, total)
            b == resp.loss_breakdown
        IN  /\ \A c \in Categories : FLt(before[c], cap)
            /\ capped = before
            /\ FLe(FAbs(FSub(Sum5(capped), total)), C27_Tolerance)
            /\ b.raw_material_loss = Round2(before.raw_material)
            /\ b.energy_loss = Round2(before.energy)
            /\ b.process_loss = Round2(before.process)
            /\ b.waste_loss = Round2(before.waste)
            /\ b.efficiency_loss = Round2(before.efficiency)

C27_Witness ==
    /\ resp.kind = "breakdown"
    /\ resp.prediction = 100
    /\ req.body["feed_ffa"] = 5000
    /\ req.body["vapour_pressure"] = 0
    /\ req.body["moisture"] = 3
    /\ req.body["actual_feed_mt"] = 0
    /\ resp.loss_breakdown.raw_material_loss = 4

\* the fields of an OptimizationResponse other than the timing fields
C28_Content(r) ==
    [current_loss_percentage |-> r.current_loss_percentage,
     suggestions |-> r.suggestions,
     potential_loss_reduction |-> r.potential_loss_reduction,
     optimization_score |-> r.optimization_score,
     expected_roi_percentage |-> r.expected_roi_percentage,
     implementation_timeline_days |-> r.implementation_timeline_days]

\* C28: the OptimizationResponse of /optimize/parameters is determined by
\* current_operation alone: the response to a request is the response to
\* the same operation with any other valid target_loss_percentage and
\* optimization_priority.
C28_TargetAndPriorityIgnored ==
    (req.endpoint = "/optimize/parameters" /\ resp.status = 200) =>
        \A target \in Targets, priority \in Priorities :
            ValidOptimization(req.body, target, priority) =>
                LET other == optimize_parameters(models, is_loaded, req.body, target, priority)
                IN  other.status = 200 /\ C28_Content(other) = C28_Content(resp)

C28_Witness ==
    /\ req.endpoint = "/optimize/parameters"
    /\ resp.status = 200
    /\ req.target_loss_percentage = <<150>>
    /\ req.optimization_priority = "yield_optimization"
    /\ resp.current_loss_percentage > 150
    /\ Len(resp.suggestions) = 3

\* C29: /batch/predict never answers 200 with total_predictions = 0: an
\* empty requests list passes validation, reaches no readiness check and no
\* prediction, and is answered with 500, whether the models are loaded or not.
C29_EmptyBatchFails ==
    req.endpoint = "/batch/predict" =>
        /\ (resp.status = 200 => resp.total_predictions > 0)
        /\ (req.items = << >> =>
               (resp.status = 500 /\ resp.kind = "error" /\ resp.item_traces = << >>))

C29_Witness ==
    /\ req.endpoint = "/batch/predict"
    /\ req.items = << >>
    /\ is_loaded
    /\ RunPipeline(models, AnalysisBase).ok
    /\ resp.status = 500

\* the threshold in force for a key: the caller's value if given
C30_Threshold(given, key) ==
    IF key \in DOMAIN given THEN given[key] ELSE default_standards[key]

\* yield analysis and process metrics of the record on the loaded models
C30_Analyses(ms, body) ==
    Only({[yield_analysis |-> calculate_yield_analysis(prediction, body),
           process_metrics |-> calculate_process_metrics(body, prediction)] :
          prediction \in {PredictionPercentage(RunPipeline(ms, body).raw, body)}})

\* score is (value / threshold) * 100
C30_IsCompliance(score, value, threshold) ==
    score = FMul(FDiv(H(value), H(threshold)), FInt(100))

\* C30: in /analysis/quality, on a service whose prediction succeeds, the
\* caller's quality_standards replace the default thresholds key by key, and
\* a threshold of 0 for any of the four keys gives 500 instead of a report.
C30_StandardsOverrideAndZeroFails ==
    ( /\ req.endpoint = "/analysis/quality"
      /\ resp.status # 422
      /\ StagesIn(resp.trace) # {} /\ resp.trace[Len(resp.trace)] = "predict"
      /\ ConvertToPercentage(req.body) ) =>
        LET given == req.quality_standards
            a == C30_Analyses(models, req.body)
        IN  IF \E key \in StandardKeys : C30_Threshold(given, key) = 0
            THEN resp.status = 500 /\ resp.kind = "error"
            ELSE /\ resp.status = 200
                 /\ C30_IsCompliance(resp.quality_breakdown.yield_compliance,
                                     a.yield_analysis.actual_yield_percentage,
                                     C30_Threshold(given, "yield_percentage"))
                 /\ C30_IsCompliance(resp.quality_breakdown.process_compliance,
                                     a.yield_analysis.process_efficiency,
                                     C30_Threshold(given, "process_efficiency"))
                 /\ C30_IsCompliance(resp.quality_breakdown.energy_compliance,
                                     a.process_metrics.energy_efficiency_percentage,
                                     C30_Threshold(given, "energy_efficiency"))
                 /\ C30_IsCompliance(resp.quality_breakdown.chemical_compliance,
                                     a.process_metrics.chemical_efficiency_percentage,
                                     C30_Threshold(given, "chemical_efficiency"))

C30_Witness ==
    /\ req.endpoint = "/analysis/quality"
    /\ req.quality_standards = [k \in {"chemical_efficiency"} |-> 0]
    /\ resp.status = 500
    /\ resp.trace = <<"ready_check">> \o StageOrder

====
